---- MODULE Spec2Model ----
(***************************************************************************)
(* Constant folding of SIL instructions (lib/SILOptimizer/Utils/            *)
(* ConstantFolding.cpp): the numeric kernels, the builtin folder and the    *)
(* worklist driver ConstantFolder::initializeWorklist / processWorkList.    *)
(*                                                                         *)
(* An APInt is a record [w |-> bit width, v |-> value], the value being     *)
(* the number the bit pattern denotes when read as a two's-complement       *)
(* signed number (-2^(w-1) .. 2^(w-1)-1).  Unsigned readings are computed   *)
(* with ZExtValue.  The encoding is a bijection with the w-bit patterns,    *)
(* and it lets the 2048-bit literals of the integer-literal sentinel be     *)
(* written down.                                                            *)
(***************************************************************************)
EXTENDS Integers, Sequences, FiniteSets, TLC

\* Largest operand width of the arithmetic builtins in the input functions.
MaxWidth == 3

\* Width of Builtin.Int2048, the type of an untyped integer literal.
LiteralWidth == 2048

\* Operand widths of the arithmetic, division and bit builtins.
Widths == 2..MaxWidth

RECURSIVE Pow2(_)
Pow2(n) == IF n <= 0 THEN 1 ELSE 2 * Pow2(n - 1)

Abs(x) == IF x < 0 THEN -x ELSE x

\* Truncating division and its remainder (C++ / APInt semantics), b # 0.
TruncDiv(a, b) ==
  IF (a < 0) = (b < 0) THEN Abs(a) \div Abs(b) ELSE -(Abs(a) \div Abs(b))

TruncRem(a, b) == a - b * TruncDiv(a, b)

\* ---------------------------------------------------------------- APInt

AP(w, v) == [w |-> w, v |-> v]

MinSigned(w) == -Pow2(w - 1)

MaxSigned(w) == Pow2(w - 1) - 1

\* The w-bit pattern congruent to the integer x, as a signed value.
Wrap(w, x) == ((x + Pow2(w - 1)) % Pow2(w)) - Pow2(w - 1)

\* APInt(w, x): construction from a host integer.
APOf(w, x) == AP(w, Wrap(w, x))

\* All APInt values of width w.
APInts(w) == {AP(w, v) : v \in MinSigned(w)..MaxSigned(w)}

\* APInt::getZExtValue: the pattern read as an unsigned number.
ZExtValue(a) == IF a.v < 0 THEN a.v + Pow2(a.w) ELSE a.v

isNegative(a) == a.v < 0

isNonNegative(a) == a.v >= 0

isMinSignedValue(a) == a.v = MinSigned(a.w)

isMaxSignedValue(a) == a.v = MaxSigned(a.w)

isAllOnesValue(a) == a.v = -1

ult(a, b) == ZExtValue(a) < ZExtValue(b)

ugt(a, b) == ZExtValue(a) > ZExtValue(b)

\* APInt::sdiv, udiv, srem, urem: results wrap to the width.
sdiv(a, b) == APOf(a.w, TruncDiv(a.v, b.v))

srem(a, b) == APOf(a.w, TruncRem(a.v, b.v))

udiv(a, b) == APOf(a.w, ZExtValue(a) \div ZExtValue(b))

urem(a, b) == APOf(a.w, ZExtValue(a) % ZExtValue(b))

\* APInt::trunc(d): the low d bits. For d equal to the width an APInt built
\* with assertions stops the program ("Invalid APInt Truncate request":
\* selfTruncates below) and one built without returns the value.
trunc(a, d) == APOf(d, a.v % Pow2(d))

\* APInt::zext(s), APInt::sext(s): extension to s bits.  For s above the
\* width the zero-extended value is below 2^(s-1), so it is its own signed
\* reading; for s equal to the width the value is returned (or an assertion
\* fails, as for trunc).
zext(a, s) == IF s > a.w THEN AP(s, ZExtValue(a)) ELSE a

sext(a, s) == AP(s, a.v)

\* APInt::sadd_ov and friends: the wrapped result and the Overflow flag.
sadd_ov(a, b) ==
  LET Res == APOf(a.w, a.v + b.v)
  IN  [res |-> Res,
       ov  |-> isNonNegative(a) = isNonNegative(b)
               /\ isNonNegative(Res) # isNonNegative(a)]

uadd_ov(a, b) ==
  LET Res == APOf(a.w, a.v + b.v)
  IN  [res |-> Res, ov |-> ult(Res, b)]

ssub_ov(a, b) ==
  LET Res == APOf(a.w, a.v - b.v)
  IN  [res |-> Res,
       ov  |-> isNonNegative(a) # isNonNegative(b)
               /\ isNonNegative(Res) # isNonNegative(a)]

usub_ov(a, b) ==
  LET Res == APOf(a.w, a.v - b.v)
  IN  [res |-> Res, ov |-> ugt(Res, a)]

smul_ov(a, b) ==
  LET Res == APOf(a.w, a.v * b.v)
  IN  [res |-> Res,
       ov  |-> IF a.v # 0 /\ b.v # 0
               THEN sdiv(Res, b) # a \/ sdiv(Res, a) # b
               ELSE FALSE]

umul_ov(a, b) ==
  LET Res == APOf(a.w, ZExtValue(a) * ZExtValue(b))
  IN  [res |-> Res,
       ov  |-> IF a.v # 0 /\ b.v # 0
               THEN udiv(Res, b) # a \/ udiv(Res, a) # b
               ELSE FALSE]

sdiv_ov(a, b) ==
  [res |-> sdiv(a, b), ov |-> isMinSignedValue(a) /\ isAllOnesValue(b)]

\* Bitwise combination of two unsigned numbers over n bits;
\* op is "And", "Or" or "Xor".
RECURSIVE BitwiseU(_, _, _, _)
BitwiseU(op, x, y, n) ==
  IF n = 0 THEN 0
  ELSE LET bx == x % 2
           by == y % 2
           b  == CASE op = "And" -> IF bx = 1 /\ by = 1 THEN 1 ELSE 0
                   [] op = "Or"  -> IF bx = 1 \/ by = 1 THEN 1 ELSE 0
                   [] OTHER      -> IF bx # by THEN 1 ELSE 0
       IN  b + 2 * BitwiseU(op, x \div 2, y \div 2, n - 1)

Bitwise(op, a, b) == APOf(a.w, BitwiseU(op, ZExtValue(a), ZExtValue(b), a.w))

\* APInt::getLimitedValue(Limit) of a shift amount.
getLimitedValue(a, limit) == IF ZExtValue(a) > limit THEN limit ELSE ZExtValue(a)

\* APInt::shl, lshr, ashr with an APInt shift amount.
shl(a, amt) == APOf(a.w, ZExtValue(a) * Pow2(getLimitedValue(amt, a.w)))

lshr(a, amt) == APOf(a.w, ZExtValue(a) \div Pow2(getLimitedValue(amt, a.w)))

ashr(a, amt) == APOf(a.w, (a.v - (a.v % Pow2(getLimitedValue(amt, a.w))))
                            \div Pow2(getLimitedValue(amt, a.w)))

\* ------------------------------------------------------- numeric kernels

\* swift::constantFoldBitOperation
constantFoldBitOperation(lhs, rhs, ID) ==
  CASE ID = "And"  -> Bitwise("And", lhs, rhs)
    [] ID = "AShr" -> ashr(lhs, rhs)
    [] ID = "LShr" -> lshr(lhs, rhs)
    [] ID = "Or"   -> Bitwise("Or", lhs, rhs)
    [] ID = "Shl"  -> shl(lhs, rhs)
    [] ID = "Xor"  -> Bitwise("Xor", lhs, rhs)

\* swift::constantFoldComparison
constantFoldComparison(lhs, rhs, ID) ==
  LET result == CASE ID = "ICMP_EQ"  -> lhs = rhs
                  [] ID = "ICMP_NE"  -> lhs # rhs
                  [] ID = "ICMP_SLT" -> lhs.v < rhs.v
                  [] ID = "ICMP_SGT" -> lhs.v > rhs.v
                  [] ID = "ICMP_SLE" -> lhs.v <= rhs.v
                  [] ID = "ICMP_SGE" -> lhs.v >= rhs.v
                  [] ID = "ICMP_ULT" -> ult(lhs, rhs)
                  [] ID = "ICMP_UGT" -> ugt(lhs, rhs)
                  [] ID = "ICMP_ULE" -> ~ugt(lhs, rhs)
                  [] ID = "ICMP_UGE" -> ~ult(lhs, rhs)
  IN  APOf(1, IF result THEN 1 ELSE 0)

\* The mapping with two cases exchanged (a slip in the switch).
constantFoldBinaryWithOverflowAPInt_swapped(lhs, rhs, ID) ==
  CASE ID = "sadd_with_overflow" -> sadd_ov(lhs, rhs)
    [] ID = "uadd_with_overflow" -> uadd_ov(lhs, rhs)
    [] ID = "ssub_with_overflow" -> usub_ov(lhs, rhs)
    [] ID = "usub_with_overflow" -> ssub_ov(lhs, rhs)
    [] ID = "smul_with_overflow" -> smul_ov(lhs, rhs)
    [] ID = "umul_with_overflow" -> umul_ov(lhs, rhs)

\* swift::constantFoldBinaryWithOverflow(APInt, APInt, bool &, Intrinsic::ID)
constantFoldBinaryWithOverflowAPInt(lhs, rhs, ID) ==
  CASE ID = "sadd_with_overflow" -> sadd_ov(lhs, rhs)
    [] ID = "uadd_with_overflow" -> uadd_ov(lhs, rhs)
    [] ID = "ssub_with_overflow" -> ssub_ov(lhs, rhs)
    [] ID = "usub_with_overflow" -> usub_ov(lhs, rhs)
    [] ID = "smul_with_overflow" -> smul_ov(lhs, rhs)
    [] ID = "umul_with_overflow" -> umul_ov(lhs, rhs)

\* The division kernel with the overflow of the signed remainder forgotten.
constantFoldDiv_noRemOverflow(lhs, rhs, ID) ==
  CASE ID = "SDiv" -> sdiv_ov(lhs, rhs)
    [] ID = "SRem" -> [res |-> srem(lhs, rhs), ov |-> FALSE]
    [] ID = "UDiv" -> [res |-> udiv(lhs, rhs), ov |-> FALSE]
    [] ID = "URem" -> [res |-> urem(lhs, rhs), ov |-> FALSE]

\* swift::constantFoldDiv; the divisor is not zero.
constantFoldDiv(lhs, rhs, ID) ==
  CASE ID = "SDiv" -> sdiv_ov(lhs, rhs)
    [] ID = "SRem" -> [res |-> srem(lhs, rhs), ov |-> sdiv_ov(lhs, rhs).ov]
    [] ID = "UDiv" -> [res |-> udiv(lhs, rhs), ov |-> FALSE]
    [] ID = "URem" -> [res |-> urem(lhs, rhs), ov |-> FALSE]

\* getLLVMIntrinsicIDForBuiltinWithOverflow
getLLVMIntrinsicIDForBuiltinWithOverflow(ID) ==
  CASE ID = "SAddOver" -> "sadd_with_overflow"
    [] ID = "UAddOver" -> "uadd_with_overflow"
    [] ID = "SSubOver" -> "ssub_with_overflow"
    [] ID = "USubOver" -> "usub_with_overflow"
    [] ID = "SMulOver" -> "smul_with_overflow"
    [] ID = "UMulOver" -> "umul_with_overflow"

OverflowBuiltins ==
  {"SAddOver", "UAddOver", "SSubOver", "USubOver", "SMulOver", "UMulOver"}

DivisionBuiltins == {"SDiv", "SRem", "UDiv", "URem"}

ShiftBuiltins == {"Shl", "LShr", "AShr"}

BitBuiltins == {"And", "Or", "Xor"} \cup ShiftBuiltins

CompareBuiltins ==
  {"ICMP_EQ", "ICMP_NE", "ICMP_SLT", "ICMP_SGT", "ICMP_SLE", "ICMP_SGE",
   "ICMP_ULT", "ICMP_UGT", "ICMP_ULE", "ICMP_UGE"}

TruncBuiltins ==
  {"SToSCheckedTrunc", "UToUCheckedTrunc", "SToUCheckedTrunc", "UToSCheckedTrunc"}

SignConvBuiltins == {"SUCheckedConversion", "USCheckedConversion"}

ConversionBuiltins == TruncBuiltins \cup SignConvBuiltins

\* ------------------------------------------------------------ the SIL IR

\* A SILLocation as the folder reads it: whether getSourceLoc() is valid,
\* whether the ApplyExpr behind it yields the user-written types, whether the
\* FloatLiteralExpr behind it is written in hex-float notation, and what
\* CallExpr is behind it: "none" (no call of a constructor), "explicit",
\* "implicit" or "implicitDouble" (an implicit construction of a Double).
ExprLoc(valid, ast, hex, cons) ==
  [valid |-> valid, ast |-> ast, hex |-> hex, cons |-> cons]

Loc(valid, ast) == ExprLoc(valid, ast, FALSE, "none")

NoVal == AP(0, 0)

\* A value of the function: an instruction (kind, builtin ID, operands,
\* literal value, tuple_extract field number, the builtin's type arguments
\* Types[0] / Types[1] as widths, the APFloat of a float literal or what
\* APFloat::convert makes of the operand of an FPTrunc, location) or a
\* function argument (kind "arg").
Inst(kind, ID, ops, val, field, srcW, dstW, fp, loc) ==
  [kind |-> kind, ID |-> ID, ops |-> ops, val |-> val, field |-> field,
   srcW |-> srcW, dstW |-> dstW, fp |-> fp, loc |-> loc]

IntegerLiteralInst(val, loc) ==
  Inst("integer_literal", "", <<>>, val, 0, 0, 0, "", loc)

FloatLiteralInst(fp, loc) ==
  Inst("float_literal", "", <<>>, NoVal, 0, 0, 0, fp, loc)

BuiltinInst(ID, ops, srcW, dstW, loc) ==
  Inst("builtin", ID, ops, NoVal, 0, srcW, dstW, "", loc)

\* builtin "fptrunc_FPIEEEs_FPIEEEd"(op); conv is what APFloat::convert
\* makes of the operand.
FPTruncInst(op, s, d, conv, loc) ==
  Inst("builtin", "FPTrunc", <<op>>, NoVal, 0, s, d, conv, loc)

TupleInst(ops, loc) == Inst("tuple", "", ops, NoVal, 0, 0, 0, "", loc)

StructInst(ops, loc) == Inst("struct", "", ops, NoVal, 0, 0, 0, "", loc)

\* struct_extract: field is the position of the field among the operands of
\* the struct (getOperandForField).
StructExtractInst(op, field, loc) ==
  Inst("struct_extract", "", <<op>>, NoVal, field, 0, 0, "", loc)

\* An IndexingInst (index_addr, index_raw_pointer): base and index.
IndexAddrInst(base, index, loc) ==
  Inst("index_addr", "", <<base, index>>, NoVal, 0, 0, 0, "", loc)

TupleExtractInst(op, field, loc) ==
  Inst("tuple_extract", "", <<op>>, NoVal, field, 0, 0, "", loc)

\* function_ref of a function with the semantics attribute sem
FunctionRefInst(sem) == Inst("function_ref", sem, <<>>, NoVal, 0, 0, 0, "", Loc(TRUE, FALSE))

\* A string value: a string literal or its encoding call.
StringInst == Inst("string", "", <<>>, NoVal, 0, 0, 0, "", Loc(TRUE, FALSE))

\* apply of callee to args; the callee is operand 1.
ApplyInst(callee, args) ==
  Inst("apply", "", <<callee>> \o args, NoVal, 0, 0, 0, "", Loc(TRUE, FALSE))

\* The checked casts; of these, the branches are terminators and only
\* unconditional_checked_cast has a result.
CastKinds ==
  {"checked_cast_br", "checked_cast_addr_br",
   "unconditional_checked_cast", "unconditional_checked_cast_addr"}

\* A checked cast of op; simplifiable is the number of times the cast
\* optimizer can still rewrite it into another checked cast.
CheckedCastInst(kind, op, simplifiable) ==
  Inst(kind, "", <<op>>, NoVal, simplifiable, 0, 0, "", Loc(TRUE, FALSE))

\* The branch or trap a cast branch is replaced by.
BranchInst == Inst("br", "", <<>>, NoVal, 0, 0, 0, "", Loc(TRUE, FALSE))

\* isa<TermInst>
isTermInst(F, i) == F[i].kind \in {"checked_cast_br", "checked_cast_addr_br", "br"}

CondFailInst(op, loc) == Inst("cond_fail", "", <<op>>, NoVal, 0, 0, 0, "", loc)

\* An instruction with side effects that only consumes values (a store, a
\* return, an apply of an unknown function).
UseInst(ops, loc) == Inst("use", "", ops, NoVal, 0, 0, 0, "", loc)

SILArgument == Inst("arg", "", <<>>, NoVal, 0, 0, 0, "", Loc(TRUE, FALSE))

\* dyn_cast<IntegerLiteralInst>(value)
isIntegerLiteral(F, v) == v \in DOMAIN F /\ F[v].kind = "integer_literal"

\* value->getDefiningInstruction() is not null
hasDefiningInstruction(F, v) == v \in DOMAIN F /\ F[v].kind # "arg"

\* isa<SingleValueInstruction>: of the modelled kinds, those with a result.
isSingleValueInstruction(F, v) ==
  /\ hasDefiningInstruction(F, v)
  /\ F[v].kind \notin {"cond_fail", "use", "br", "checked_cast_br",
                       "checked_cast_addr_br", "unconditional_checked_cast_addr"}

\* The uses of value v: pairs <<user, operand number>>.
Uses(F, v) ==
  {p \in (DOMAIN F) \X (1..3) :
     p[2] <= Len(F[p[1]].ops) /\ F[p[1]].ops[p[2]] = v}

use_empty(F, v) == Uses(F, v) = {}

\* value->replaceAllUsesWith(new)
replaceAllUsesWith(F, old, new) ==
  [i \in DOMAIN F |->
     [F[i] EXCEPT !.ops = [k \in 1..Len(F[i].ops) |->
                             IF F[i].ops[k] = old THEN new ELSE F[i].ops[k]]]]

\* inst->dropAllReferences()
dropAllReferences(F, i) == [F EXCEPT ![i].ops = <<>>]

\* ------------------------------------------------------ the folder's result

\* Optional<bool> ResultsInError
None == "None"

SomeFalse == "Some(false)"

SomeTrue == "Some(true)"

hasValue(rie) == rie # None

\* What a fold returns: the replacement C, ResultsInError after the call, the
\* diagnostics emitted, and the calls made to the numeric kernels.
\* C is null, an existing value (id), a new integer literal (val), a new
\* tuple of two new integer literals (val, ov), or a new float literal (fp).
NullC == [k |-> "null", id |-> 0, val |-> NoVal, ov |-> NoVal]

ValueC(id) == [k |-> "value", id |-> id, val |-> NoVal, ov |-> NoVal]

LiteralC(val) == [k |-> "literal", id |-> 0, val |-> val, ov |-> NoVal]

TupleC(val, ov) == [k |-> "tuple", id |-> 0, val |-> val, ov |-> ov]

\* a new float literal of value fp
FloatC(fp) == [k |-> "float", id |-> 0, val |-> NoVal, ov |-> NoVal, fp |-> fp]

Fold(C, rie, ds, ks) == [C |-> C, rie |-> rie, diags |-> ds, kernel |-> ks]

NoFold(rie) == Fold(NullC, rie, <<>>, <<>>)

KernelCall(fn, ID, lhs, rhs) == [fn |-> fn, ID |-> ID, lhs |-> lhs, rhs |-> rhs]

\* constructResultWithOverflowTuple: the tuple (Res, Overflow as a 1-bit literal)
constructResultWithOverflowTuple(Res, Overflow) ==
  TupleC(Res, APOf(1, IF Overflow THEN 1 ELSE 0))

\* --------------------------------------------------------- BuiltinFolder

\* The report guard with the test of ReportOverflow negated.
mustReportOverflow_negatedFlag(rie, Overflow, ReportOverflow) ==
  hasValue(rie) /\ Overflow /\ ~ReportOverflow

\* The overflow handled the same whether diagnostics are asked for or not.
mustReportOverflow_inEitherMode(rie, Overflow, ReportOverflow) ==
  Overflow /\ ReportOverflow

\* ResultsInError.hasValue() && Overflow && ReportOverflow
mustReportOverflow(rie, Overflow, ReportOverflow) ==
  hasValue(rie) /\ Overflow /\ ReportOverflow

\* static constantFoldBinaryWithOverflow(BuiltinInst *, llvm::Intrinsic::ID,
\*                                       bool ReportOverflow, ResultsInError)
constantFoldBinaryWithOverflowIntrinsic(F, u, ID, ReportOverflow, isSpec, rie) ==
  LET Args == F[u].ops
  IN  IF ~isIntegerLiteral(F, Args[1]) \/ ~isIntegerLiteral(F, Args[2])
      THEN NoFold(rie)
      ELSE
        LET LHSInt == F[Args[1]].val
            RHSInt == F[Args[2]].val
            r  == constantFoldBinaryWithOverflowAPInt(LHSInt, RHSInt, ID)
            ks == <<KernelCall("constantFoldBinaryWithOverflow", ID, LHSInt, RHSInt)>>
        IN  IF mustReportOverflow(rie, r.ov, ReportOverflow)
            THEN IF isSpec
                 THEN Fold(NullC, rie, <<>>, ks)
                 ELSE Fold(constructResultWithOverflowTuple(r.res, r.ov), SomeTrue,
                           <<IF F[u].loc.ast
                             THEN "arithmetic_operation_overflow"
                             ELSE "arithmetic_operation_overflow_generic_type">>,
                           ks)
            ELSE Fold(constructResultWithOverflowTuple(r.res, r.ov), rie, <<>>, ks)

\* ShouldReportFlag && (ShouldReportFlag->getValue() == 1)
ReportOverflowFlag(F, u) ==
  isIntegerLiteral(F, F[u].ops[3]) /\ ZExtValue(F[F[u].ops[3]].val) = 1

\* static constantFoldBinaryWithOverflow(BuiltinInst *, BuiltinValueKind, ...)
constantFoldBinaryWithOverflow(F, u, isSpec, rie) ==
  constantFoldBinaryWithOverflowIntrinsic(
    F, u, getLLVMIntrinsicIDForBuiltinWithOverflow(F[u].ID),
    ReportOverflowFlag(F, u), isSpec, rie)

\* The zero denominator diagnosed without ResultsInError being set.
divisionByZero_flagNotSet(rie) ==
  IF ~hasValue(rie) THEN NoFold(rie)
  ELSE Fold(NullC, rie, <<"division_by_zero">>, <<>>)

\* constantFoldAndCheckDivision, lines 523-533: the denominator is zero.
divisionByZero(rie) ==
  IF ~hasValue(rie) THEN NoFold(rie)
  ELSE Fold(NullC, SomeTrue, <<"division_by_zero">>, <<>>)

\* constantFoldAndCheckDivision
constantFoldAndCheckDivision(F, u, rie) ==
  LET Args == F[u].ops
  IN  IF ~isIntegerLiteral(F, Args[2]) THEN NoFold(rie)
      ELSE IF F[Args[2]].val.v = 0 THEN divisionByZero(rie)
      ELSE IF ~isIntegerLiteral(F, Args[1]) THEN NoFold(rie)
      ELSE
        LET NumVal   == F[Args[1]].val
            DenomVal == F[Args[2]].val
            r  == constantFoldDiv(NumVal, DenomVal, F[u].ID)
            ks == <<KernelCall("constantFoldDiv", F[u].ID, NumVal, DenomVal)>>
        IN  IF r.ov
            THEN IF ~hasValue(rie) THEN Fold(NullC, rie, <<>>, ks)
                 ELSE Fold(NullC, SomeTrue, <<"division_overflow">>, ks)
            ELSE Fold(LiteralC(r.res), rie, <<>>, ks)

\* The shift test with > in place of >=.
shiftsAllSignificantBits_offByOne(ID, LHSI, RHSI) ==
  ID \in ShiftBuiltins /\ ZExtValue(RHSI) > LHSI.w

\* IsShift && RHSI.getZExtValue() >= LHSI.getBitWidth()
shiftsAllSignificantBits(ID, LHSI, RHSI) ==
  ID \in ShiftBuiltins /\ ZExtValue(RHSI) >= LHSI.w

\* constantFoldBinary (the integer operations)
constantFoldBinary(F, u, rie) ==
  LET ID   == F[u].ID
      Args == F[u].ops
  IN  CASE ID \in {"ExactSDiv", "ExactUDiv", "FRem", "Add", "Mul", "Sub"} ->
             NoFold(rie)
        [] ID \in DivisionBuiltins -> constantFoldAndCheckDivision(F, u, rie)
        [] ID \in BitBuiltins ->
             IF ~isIntegerLiteral(F, Args[2]) \/ ~isIntegerLiteral(F, Args[1])
             THEN NoFold(rie)
             ELSE LET LHSI == F[Args[1]].val
                      RHSI == F[Args[2]].val
                  IN  IF shiftsAllSignificantBits(ID, LHSI, RHSI)
                      THEN Fold(NullC, SomeTrue,
                                <<"shifting_all_significant_bits">>, <<>>)
                      ELSE Fold(LiteralC(constantFoldBitOperation(LHSI, RHSI, ID)),
                                rie, <<>>,
                                <<KernelCall("constantFoldBitOperation", ID, LHSI, RHSI)>>)

\* getTypeSignedness: <<SrcTySigned, DstTySigned>>
getTypeSignedness(ID) ==
  <<ID \in {"SToSCheckedTrunc", "SToUCheckedTrunc", "SUCheckedConversion"},
    ID \in {"SToSCheckedTrunc", "UToSCheckedTrunc", "USCheckedConversion"}>>

\* The round-trip check with the extension chosen by the source signedness
\* and the truncation always to the full destination width.
checkedConversion_bySourceSign(ID, SrcVal, SrcBitWidth, DstBitWidth) ==
  IF ID \in SignConvBuiltins
  THEN [Result |-> SrcVal, OverflowError |-> isNegative(SrcVal)]
  ELSE LET Result == trunc(SrcVal, DstBitWidth)
           Ext    == IF getTypeSignedness(ID)[1]
                     THEN sext(Result, SrcBitWidth)
                     ELSE zext(Result, SrcBitWidth)
       IN  [Result |-> Result, OverflowError |-> SrcVal # Ext]

\* The same-width conversions with the sign test left out.
checkedConversion_signUnchecked(ID, SrcVal, SrcBitWidth, DstBitWidth) ==
  IF ID \in SignConvBuiltins
  THEN [Result |-> SrcVal, OverflowError |-> FALSE]
  ELSE checkedConversion_bySourceSign(ID, SrcVal, SrcBitWidth, DstBitWidth)

\* The truncation from unsigned to signed checked like the one from
\* unsigned to unsigned, the sign bit of the destination counted as a value
\* bit.
checkedConversion_signBitAsValue(ID, SrcVal, SrcBitWidth, DstBitWidth) ==
  IF ID \in SignConvBuiltins
  THEN [Result |-> SrcVal, OverflowError |-> isNegative(SrcVal)]
  ELSE LET Result == trunc(SrcVal, DstBitWidth)
           Ext    == IF ID = "SToSCheckedTrunc" THEN sext(Result, SrcBitWidth)
                     ELSE zext(Result, SrcBitWidth)
       IN  [Result |-> Result, OverflowError |-> SrcVal # Ext]

\* constantFoldAndCheckIntegerConversions: Result and OverflowError
checkedConversion(ID, SrcVal, SrcBitWidth, DstBitWidth) ==
  IF ID \in SignConvBuiltins
  THEN [Result |-> SrcVal, OverflowError |-> isNegative(SrcVal)]
  ELSE IF ID # "UToSCheckedTrunc"
  THEN LET Result == trunc(SrcVal, DstBitWidth)
           Signed == (ID = "SToSCheckedTrunc")
           Ext    == IF Signed THEN sext(Result, SrcBitWidth)
                     ELSE zext(Result, SrcBitWidth)
       IN  [Result |-> Result, OverflowError |-> SrcVal # Ext]
  ELSE LET Result   == trunc(SrcVal, DstBitWidth)
           TruncVal == trunc(SrcVal, DstBitWidth - 1)
       IN  [Result |-> Result,
            OverflowError |-> SrcVal # zext(TruncVal, SrcBitWidth)]

\* constantFoldAndCheckIntegerConversions, lines 730 and 747: the truncation
\* of the literal operand of u to a width that is not narrower, which an
\* APInt built with assertions refuses.
selfTruncates(F, u) ==
  /\ F[u].kind = "builtin"
  /\ F[u].ID \in TruncBuiltins
  /\ isIntegerLiteral(F, F[u].ops[1])
  /\ F[u].dstW >= F[u].srcW

\* The diagnostic choice with the literal sentinel never recognised.
conversionDiagnostic_noSentinel(ID, SrcVal, SrcBitWidth, loc) ==
  IF ~loc.valid THEN "integer_conversion_overflow_warn"
  ELSE IF ID = "SUCheckedConversion" THEN "integer_conversion_sign_error"
  ELSE IF loc.ast THEN "integer_conversion_overflow"
  ELSE "integer_conversion_overflow_builtin_types"

\* constantFoldAndCheckIntegerConversions: the diagnostic emitted on overflow
conversionDiagnostic(ID, SrcVal, SrcBitWidth, loc) ==
  LET Literal == (SrcBitWidth = LiteralWidth)
      sg      == getTypeSignedness(ID)
  IN  IF ~loc.valid
      THEN IF Literal THEN "integer_literal_overflow_warn"
           ELSE "integer_conversion_overflow_warn"
      ELSE IF Literal
      THEN IF loc.ast
           THEN IF sg[1] /\ ~sg[2] /\ isNegative(SrcVal)
                THEN "negative_integer_literal_overflow_unsigned"
                ELSE "integer_literal_overflow"
           ELSE "integer_literal_overflow_builtin_types"
      ELSE IF ID = "SUCheckedConversion" THEN "integer_conversion_sign_error"
      ELSE IF loc.ast THEN "integer_conversion_overflow"
      ELSE "integer_conversion_overflow_builtin_types"

\* constantFoldAndCheckIntegerConversions
constantFoldAndCheckIntegerConversions(F, u, rie) ==
  IF ~isIntegerLiteral(F, F[u].ops[1]) THEN NoFold(rie)
  ELSE LET SrcVal == F[F[u].ops[1]].val
           c == checkedConversion(F[u].ID, SrcVal, F[u].srcW, F[u].dstW)
       IN  IF c.OverflowError
           THEN IF ~hasValue(rie) THEN NoFold(rie)
                ELSE Fold(NullC, SomeTrue,
                          <<conversionDiagnostic(F[u].ID, SrcVal, F[u].srcW, F[u].loc)>>,
                          <<>>)
           ELSE Fold(constructResultWithOverflowTuple(c.Result, FALSE), rie,
                     <<>>, <<>>)

\* PatternMatch m_Zero(): an integer literal equal to 0
m_Zero(F, v) == isIntegerLiteral(F, v) /\ F[v].val.v = 0

\* PatternMatch m_One(): an integer literal equal to 1
m_One(F, v) == isIntegerLiteral(F, v) /\ ZExtValue(F[v].val) = 1

\* Any builtin taken for AssumeNonNegative.
MatchNonNegative_anyBuiltin(F, v) == v \in DOMAIN F /\ F[v].kind = "builtin"

\* m_BuiltinInst(BuiltinValueKind::AssumeNonNegative, m_ValueBase())
MatchNonNegative(F, v) ==
  v \in DOMAIN F /\ F[v].kind = "builtin" /\ F[v].ID = "AssumeNonNegative"
    /\ Len(F[v].ops) = 1

\* The test of the literal for Int.max left out.
MatchIntMax_anyLiteral(F, v) == isIntegerLiteral(F, v)

\* m_IntegerLiteralInst(IntMax) && IntMax->getValue().isMaxSignedValue()
MatchIntMax(F, v) == isIntegerLiteral(F, v) /\ isMaxSignedValue(F[v].val)

\* The test of the shift count left out.
MatchPositiveLShr_anyCount(F, v) ==
  /\ v \in DOMAIN F /\ F[v].kind = "builtin" /\ F[v].ID = "LShr"
  /\ Len(F[v].ops) = 2
  /\ isIntegerLiteral(F, F[v].ops[2])

\* Other is LShr(_, ShiftCount) with ShiftCount->getValue().isStrictlyPositive()
MatchPositiveLShr(F, v) ==
  /\ v \in DOMAIN F /\ F[v].kind = "builtin" /\ F[v].ID = "LShr"
  /\ Len(F[v].ops) = 2
  /\ isIntegerLiteral(F, F[v].ops[2])
  /\ F[F[v].ops[2]].val.v > 0

\* The test of the report operand left out.
MatchCheckedUnsignedResult_anyReport(F, v) ==
  /\ v \in DOMAIN F /\ F[v].kind = "tuple_extract" /\ F[v].field = 0
  /\ Len(F[v].ops) = 1
  /\ F[v].ops[1] \in DOMAIN F
  /\ F[F[v].ops[1]].kind = "builtin"
  /\ F[F[v].ops[1]].ID \in {"UAddOver", "USubOver", "UMulOver"}

\* m_TupleExtractInst(m_BuiltinInst(BIOp), 0) with BIOp an unsigned checked
\* operation whose operand 2 matches m_One()
MatchCheckedUnsignedResult(F, v) ==
  /\ v \in DOMAIN F /\ F[v].kind = "tuple_extract" /\ F[v].field = 0
  /\ Len(F[v].ops) = 1
  /\ F[v].ops[1] \in DOMAIN F
  /\ F[F[v].ops[1]].kind = "builtin"
  /\ F[F[v].ops[1]].ID \in {"UAddOver", "USubOver", "UMulOver"}
  /\ Len(F[F[v].ops[1]].ops) >= 3
  /\ m_One(F, F[F[v].ops[1]].ops[3])

\* The predicate ID applied as (a, b) or its mirror image applied as (b, a).
MatchEither(ID, a, b, Pred, Mirror, A(_), B(_)) ==
  \/ ID = Pred /\ A(a) /\ B(b)
  \/ ID = Mirror /\ A(b) /\ B(a)

\* The patterns that fold to 0 in their first spelling only.
compareFoldsToZero_unmirrored(F, ID, a, b) ==
  \/ ID = "ICMP_ULT" /\ m_Zero(F, b)
  \/ ID = "ICMP_SLT" /\ MatchNonNegative(F, a) /\ m_Zero(F, b)
  \/ ID = "ICMP_SLT" /\ MatchIntMax(F, a)
  \/ ID = "ICMP_ULT" /\ MatchIntMax(F, a) /\ MatchPositiveLShr(F, b)
  \/ ID = "ICMP_SLT" /\ MatchCheckedUnsignedResult(F, a) /\ m_Zero(F, b)

\* constantFoldCompare: the patterns that fold to the 1-bit literal 0 (they
\* and the patterns that fold to 1 are on different predicates, so the order
\* of the two groups does not matter)
compareFoldsToZero(F, ID, a, b) ==
  LET AnyV(v) == TRUE
      Zero(v) == m_Zero(F, v)
      NonNeg(v) == MatchNonNegative(F, v)
      Max(v)  == MatchIntMax(F, v)
      Shr(v)  == MatchPositiveLShr(F, v)
  IN  \/ MatchEither(ID, a, b, "ICMP_ULT", "ICMP_UGT", AnyV, Zero)
      \/ MatchEither(ID, a, b, "ICMP_SLT", "ICMP_SGT", NonNeg, Zero)
      \/ MatchEither(ID, a, b, "ICMP_SLT", "ICMP_SGT", Max, AnyV)
      \/ MatchEither(ID, a, b, "ICMP_ULT", "ICMP_UGT", Max, Shr)
      \/ MatchEither(ID, a, b, "ICMP_SLT", "ICMP_SGT", Max, Shr)
      \/ ID = "ICMP_SLT" /\ MatchCheckedUnsignedResult(F, a) /\ m_Zero(F, b)

\* constantFoldCompare: the patterns that fold to the 1-bit literal 1
compareFoldsToOne(F, ID, a, b) ==
  LET AnyV(v) == TRUE
      Zero(v) == m_Zero(F, v)
      NonNeg(v) == MatchNonNegative(F, v)
      Max(v)  == MatchIntMax(F, v)
      Shr(v)  == MatchPositiveLShr(F, v)
  IN  \/ MatchEither(ID, a, b, "ICMP_UGE", "ICMP_ULE", AnyV, Zero)
      \/ MatchEither(ID, a, b, "ICMP_SGE", "ICMP_SLE", NonNeg, Zero)
      \/ MatchEither(ID, a, b, "ICMP_SGE", "ICMP_SLE", Max, AnyV)
      \/ MatchEither(ID, a, b, "ICMP_UGE", "ICMP_ULE", Max, Shr)
      \/ MatchEither(ID, a, b, "ICMP_SGE", "ICMP_SLE", Max, Shr)
      \/ ID = "ICMP_SGE" /\ MatchCheckedUnsignedResult(F, a) /\ m_Zero(F, b)

\* constantFoldCompare
constantFoldCompare(F, u, rie) ==
  LET ID == F[u].ID
      a  == F[u].ops[1]
      b  == F[u].ops[2]
  IN  IF isIntegerLiteral(F, a) /\ isIntegerLiteral(F, b)
      THEN Fold(LiteralC(constantFoldComparison(F[a].val, F[b].val, ID)), rie, <<>>,
                <<KernelCall("constantFoldComparison", ID, F[a].val, F[b].val)>>)
      ELSE IF compareFoldsToZero(F, ID, a, b) THEN Fold(LiteralC(AP(1, 0)), rie, <<>>, <<>>)
      ELSE IF compareFoldsToOne(F, ID, a, b) THEN Fold(LiteralC(APOf(1, 1)), rie, <<>>, <<>>)
      ELSE NoFold(rie)

\* The wrong assumption diagnosed whatever ResultsInError holds.
wrongNonNegativeAssumption_unguarded(VInt, rie) == isNegative(VInt)

\* VInt.isNegative() && ResultsInError.hasValue()
wrongNonNegativeAssumption(VInt, rie) == isNegative(VInt) /\ hasValue(rie)

\* constantFoldBuiltin, case AssumeNonNegative
foldAssumeNonNegative(F, u, rie) ==
  IF ~isIntegerLiteral(F, F[u].ops[1]) THEN NoFold(rie)
  ELSE IF wrongNonNegativeAssumption(F[F[u].ops[1]].val, rie)
  THEN Fold(ValueC(F[u].ops[1]), SomeTrue, <<"wrong_non_negative_assumption">>, <<>>)
  ELSE Fold(ValueC(F[u].ops[1]), rie, <<>>, <<>>)

\* ------------------------------------------------------- floating point

\* An APFloat of the type of bit width sem: its category ("NaN", "Zero",
\* "Infinity" or "Normal"), isDenormal(), ilogb() and the set bits of the
\* significand field of its bit pattern (bit 0 is the least significant).
APFloat(sem, category, denormal, exponent, significand) ==
  [sem |-> sem, category |-> category, denormal |-> denormal,
   exponent |-> exponent, significand |-> significand]

\* APFloat::isInfinity
isInfinity(x) == x.category = "Infinity"

\* What truncVal.convert(dest, rmNearestTiesToEven, &losesInfo) leaves: the
\* opStatus bits it returns and the converted truncVal.
Converted(opStatus, truncVal) == [opStatus |-> opStatus, truncVal |-> truncVal]

opOK == {}

\* struct IEEESemantics and its constructor
IEEESemantics(bitWidth, exponentBitWidth, significandBitWidth, explicitIntegerPart) ==
  [bitWidth |-> bitWidth, exponentBitWidth |-> exponentBitWidth,
   significandBitWidth |-> significandBitWidth,
   explicitIntegerPart |-> explicitIntegerPart,
   minExponent |-> -Pow2(exponentBitWidth - 1) + 2]

\* getFPSemantics, on the bit width of the BuiltinFloatType
getFPSemantics(fpType) ==
  CASE fpType = 32 -> IEEESemantics(32, 8, 23, FALSE)
    [] fpType = 64 -> IEEESemantics(64, 11, 52, FALSE)
    [] fpType = 80 -> IEEESemantics(80, 15, 63, TRUE)

\* The width of int: 1 << n is defined for n below it.
IntBits == 32

\* significand >> n, on the set bits
ShiftRight(bits, n) == {b - n : b \in {c \in bits : c >= n}}

\* The test of the exponent against the subnormal range left out.
belowSubnormalRange_never(srcExponent, destSem) == FALSE

\* srcExponent < destSem.minExponent - destSem.significandBitWidth
belowSubnormalRange(srcExponent, destSem) ==
  srcExponent < destSem.minExponent - destSem.significandBitWidth

\* unsigned additionalLoss = destSem.minExponent - srcExponent + 1
additionalLoss(srcExponent, destSem) == destSem.minExponent - srcExponent + 1

\* Whether (1 << additionalLoss) - 1 is defined on int: the shifted 1 has to
\* stay below the sign bit for the subtraction not to overflow.
maskIsDefined(L) == L < IntBits - 1

\* isLossyUnderflow(int srcExponent, uint64_t srcSignificand, IEEESemantics,
\* IEEESemantics); ub is what the build returns when the mask is undefined.
isLossyUnderflow(srcExponent, srcSignificand, srcSem, destSem, ub) ==
  IF srcExponent >= destSem.minExponent THEN FALSE
  ELSE IF belowSubnormalRange(srcExponent, destSem) THEN TRUE
  ELSE LET bitWidthDecrease ==
             (srcSem.significandBitWidth - destSem.significandBitWidth) % 256
           truncSignificand ==
             IF bitWidthDecrease > 0 THEN ShiftRight(srcSignificand, bitWidthDecrease)
             ELSE srcSignificand
           L == additionalLoss(srcExponent, destSem)
       IN  IF maskIsDefined(L) THEN \E b \in truncSignificand : b < L
           ELSE ub

\* isLossyUnderflow(APFloat srcVal, BuiltinFloatType *srcType, *destType)
isLossyUnderflowAPFloat(srcVal, srcType, destType, ub) ==
  IF srcVal.category \in {"NaN", "Zero", "Infinity"} THEN FALSE
  ELSE IF getFPSemantics(srcType).bitWidth <= getFPSemantics(destType).bitWidth
  THEN FALSE
  ELSE IF srcVal.denormal THEN TRUE
  ELSE isLossyUnderflow(
         srcVal.exponent,
         {b \in srcVal.significand : b < getFPSemantics(srcType).significandBitWidth},
         getFPSemantics(srcType), getFPSemantics(destType), ub)

\* isHexLiteralInSource
isHexLiteralInSource(F, flitInst) == F[flitInst].loc.hex

\* maybeExplicitFPCons
maybeExplicitFPCons(F, BI) == F[BI].loc.cons # "implicit"

\* The fold given up on the status bits alone.
foldAborts_statusOnly(opStatus, truncVal) ==
  opStatus \cap {"opInvalidOp", "opDivByZero", "opUnderflow"} # {}

\* foldFPTrunc, lines 1161-1166: subnormality, NaN or opInvalid status
foldAborts(opStatus, truncVal) ==
  \/ opStatus \cap {"opInvalidOp", "opDivByZero", "opUnderflow"} # {}
  \/ truncVal.denormal

\* foldFPTrunc, lines 1151-1155: the diagnostic chosen
truncDiagnostic(overflow, hexnInexact) ==
  IF overflow THEN "warning_float_trunc_overflow"
  ELSE IF hexnInexact THEN "warning_float_trunc_hex_inexact"
  ELSE "warning_float_trunc_underflow"

\* foldFPTrunc
foldFPTrunc(F, u, rie, ub) ==
  LET flitInst == F[u].ops[1]
  IN  IF ~(flitInst \in DOMAIN F /\ F[flitInst].kind = "float_literal")
      THEN NoFold(rie)
      ELSE
        LET opStatus == F[u].fp.opStatus
            truncVal == F[u].fp.truncVal
            asked    == hasValue(rie) /\ ~maybeExplicitFPCons(F, u)
            overflow == "opOverflow" \in opStatus
            tinynInexact ==
              isLossyUnderflowAPFloat(F[flitInst].fp, F[u].srcW, F[u].dstW, ub)
            hexnInexact == opStatus # opOK /\ isHexLiteralInSource(F, flitInst)
            warns == asked /\ (overflow \/ tinynInexact \/ hexnInexact)
            ds  == IF warns THEN <<truncDiagnostic(overflow, hexnInexact)>> ELSE <<>>
            ks  == IF asked
                   THEN <<[fn |-> "isLossyUnderflow", ID |-> "FPTrunc",
                           lhs |-> F[flitInst].fp, rhs |-> F[u].dstW,
                           ret |-> tinynInexact]>>
                   ELSE <<>>
            rie1 == IF warns THEN SomeTrue ELSE rie
        IN  IF foldAborts(opStatus, truncVal) THEN Fold(NullC, rie1, ds, ks)
            ELSE Fold(FloatC(truncVal), rie1, ds, ks)

\* constantFoldBuiltin
constantFoldBuiltin(F, u, isSpec, rie, ub) ==
  LET ID == F[u].ID
  IN  CASE ID \in OverflowBuiltins -> constantFoldBinaryWithOverflow(F, u, isSpec, rie)
        [] ID \in DivisionBuiltins \cup BitBuiltins
                  \cup {"ExactSDiv", "ExactUDiv", "FRem", "Add", "Mul", "Sub"} ->
             constantFoldBinary(F, u, rie)
        [] ID \in CompareBuiltins -> constantFoldCompare(F, u, rie)
        [] ID \in ConversionBuiltins ->
             constantFoldAndCheckIntegerConversions(F, u, rie)
        [] ID = "AssumeNonNegative" -> foldAssumeNonNegative(F, u, rie)
        [] ID = "FPTrunc" -> foldFPTrunc(F, u, rie, ub)
        [] OTHER -> NoFold(rie)

\* The index only tested for being a literal.
indexIsZero_anyLiteral(F, idx) == isIntegerLiteral(F, idx)

\* dyn_cast<IntegerLiteralInst>(II->getIndex()) && !IntLiteral->getValue()
indexIsZero(F, idx) == isIntegerLiteral(F, idx) /\ F[idx].val.v = 0

\* constantFoldInstruction
constantFoldInstruction(F, u, isSpec, rie, ub) ==
  IF F[u].kind = "builtin" THEN constantFoldBuiltin(F, u, isSpec, rie, ub)
  ELSE IF F[u].kind = "tuple_extract" /\ F[u].ops # <<>>
          /\ F[u].ops[1] \in DOMAIN F /\ F[F[u].ops[1]].kind = "tuple"
  THEN Fold(ValueC(F[F[u].ops[1]].ops[F[u].field + 1]), rie, <<>>, <<>>)
  ELSE IF F[u].kind = "struct_extract" /\ F[u].ops # <<>>
          /\ F[u].ops[1] \in DOMAIN F /\ F[F[u].ops[1]].kind = "struct"
  THEN Fold(ValueC(F[F[u].ops[1]].ops[F[u].field + 1]), rie, <<>>, <<>>)
  ELSE IF F[u].kind = "index_addr" /\ indexIsZero(F, F[u].ops[2])
  THEN Fold(ValueC(F[u].ops[1]), rie, <<>>, <<>>)
  ELSE NoFold(rie)

\* ----------------------------------------------------- helpers of the driver

\* SILOptions::DisableReplacement
DisableReplacement == -1

\* All enumerations of the finite set S as a sequence without repetition.
Orders(S) ==
  {q \in [1..Cardinality(S) -> S] : \A i, j \in 1..Cardinality(S) : q[i] = q[j] => i = j}

SeqToSet(q) == {q[i] : i \in 1..Len(q)}

SelectNotIn(q, D) == SelectSeq(q, LAMBDA x : x \notin D)

\* An insertion that does not look for the element.
SetVectorInsert_noDedup(q, x) == Append(q, x)

\* The element of a set of one element; {e(x) : x \in {v}} computes v once.
TheOnly(S) == CHOOSE r \in S : TRUE

\* llvm::SetVector::insert
SetVectorInsert(q, x) == IF x \in SeqToSet(q) THEN q ELSE Append(q, x)

\* A new instruction placed in the block right before instruction at.
InsertBefore(blk, new, at) ==
  IF at \notin SeqToSet(blk) THEN blk \o new
  ELSE LET k == CHOOSE i \in 1..Len(blk) : blk[i] = at
       IN  SubSeq(blk, 1, k - 1) \o new \o SubSeq(blk, k, Len(blk))

\* isInstructionTriviallyDead: no use is left and the instruction has no side
\* effect; a cond_fail is dead when its operand is the literal 0.
isInstructionTriviallyDead(F, i) ==
  /\ i \in DOMAIN F
  /\ use_empty(F, i)
  /\ \/ F[i].kind \in {"integer_literal", "float_literal", "tuple", "tuple_extract",
                       "struct", "struct_extract", "index_addr", "string",
                       "function_ref"}
     \/ F[i].kind = "builtin" /\ F[i].ID # "CondUnreachable"
     \/ /\ F[i].kind = "cond_fail"
        /\ F[i].ops # <<>>
        /\ isIntegerLiteral(F, F[i].ops[1])
        /\ F[F[i].ops[1]].val.v = 0

\* One round of recursivelyDeleteTriviallyDeadInstructions: the callback on
\* each dead instruction (when the caller gave one), its operands dropped,
\* the operands' instructions that became dead collected for the next round,
\* the dead instructions erased.
RECURSIVE DeleteRounds(_, _, _, _, _)
DeleteRounds(F, blk, WL, Dead, withCallback) ==
  IF Dead = {} THEN [F |-> F, block |-> blk, WorkList |-> WL]
  ELSE LET opVals == UNION {SeqToSet(F[i].ops) : i \in Dead}
           NextInsts(F1) == {v \in opVals : /\ hasDefiningInstruction(F1, v)
                                            /\ v \notin Dead
                                            /\ isInstructionTriviallyDead(F1, v)}
           round(F1) == [F |-> [i \in (DOMAIN F) \ Dead |-> F1[i]],
                         block |-> SelectNotIn(blk, Dead),
                         WorkList |-> IF withCallback THEN SelectNotIn(WL, Dead) ELSE WL,
                         Dead |-> NextInsts(F1)]
       IN  TheOnly({DeleteRounds(r.F, r.block, r.WorkList, r.Dead, withCallback) :
                      r \in {round([i \in DOMAIN F |->
                                      IF i \in Dead THEN [F[i] EXCEPT !.ops = <<>>]
                                      ELSE F[i]])}})

\* recursivelyDeleteTriviallyDeadInstructions(IA, Force, Callback)
recursivelyDeleteTriviallyDeadInstructions(F, blk, WL, IA, Force, withCallback) ==
  DeleteRounds(F, blk, WL,
               {i \in IA : i \in DOMAIN F /\ (Force \/ isInstructionTriviallyDead(F, i))},
               withCallback)

\* isFoldable
isFoldable(F, i) == F[i].kind \in {"integer_literal", "float_literal"}

\* isApplyOfBuiltin
isApplyOfBuiltin(F, i, kind) == F[i].kind = "builtin" /\ F[i].ID = kind

\* isApplyOfStringConcat
isApplyOfStringConcat(F, i) ==
  /\ i \in DOMAIN F
  /\ F[i].kind = "apply"
  /\ F[i].ops # <<>>
  /\ F[i].ops[1] \in DOMAIN F
  /\ F[F[i].ops[1]].kind = "function_ref"
  /\ F[F[i].ops[1]].ID = "string.concat"

\* isa<CheckedCastBranchInst> || isa<CheckedCastAddrBranchInst> ||
\* isa<UnconditionalCheckedCastInst> || isa<UnconditionalCheckedCastAddrInst>
isCheckedCast(F, i) == i \in DOMAIN F /\ F[i].kind \in CastKinds

\* ------------------------------------------------------------- the driver

VARIABLES
  insts,                  \* the values of the function: id -> Inst
  block,                  \* the instructions in block order
  nextId,                 \* the next fresh instruction
  cfg,                    \* EnableDiagnostics, AssertConfiguration, isSpecialization,
                          \* undefinedShift (what the build makes of an undefined
                          \* shift), assertions (whether the build has assertions)
  WorkList,               \* ConstantFolder::WorkList (a SetVector)
  ErrorSet,               \* processWorkList's ErrorSet
  NumInstFolded,          \* the statistic NumInstFolded
  Invalidate,             \* InvalidateInstructions / Calls / Branches
  diags,                  \* the diagnostics emitted: [inst, kind]
  folds,                  \* the calls of constantFoldInstruction made so far
  pc,                     \* "seed", "process" or "done"
  result,                 \* the InvalidationKind returned
  input,                  \* the function the current run was given
  finished                \* the earlier runs: [input, output, diags]

vars == <<insts, block, nextId, cfg, WorkList, ErrorSet, NumInstFolded,
          Invalidate, diags, folds, pc, result, input, finished>>

\* The test of the error set left out.
inErrorSet_never(ES, User) == FALSE

\* ErrorSet.count(User)
inErrorSet(ES, User) == User \in ES

\* Optional<bool> ResultsInError; if (EnableDiagnostics) ResultsInError = false;
initialResultsInError(EnableDiagnostics) ==
  IF EnableDiagnostics THEN SomeFalse ELSE None

\* The operands of a user as the folder sees them.
OperandValues(F, u) ==
  [k \in 1..Len(F[u].ops) |->
     IF isIntegerLiteral(F, F[u].ops[k])
     THEN [lit |-> TRUE, val |-> F[F[u].ops[k]].val]
     ELSE [lit |-> FALSE, val |-> NoVal]]

\* The instructions a replacement C adds in front of User, and the value C.
Materialize(st, User, C) ==
  LET n   == st.nextId
      loc == st.F[User].loc
  IN  CASE C.k = "value" -> [st |-> st, C |-> C.id]
        [] C.k = "literal" ->
             [st |-> [st EXCEPT !.F = @ @@ (n :> IntegerLiteralInst(C.val, loc)),
                                !.block = InsertBefore(@, <<n>>, User),
                                !.nextId = n + 1],
              C |-> n]
        [] C.k = "float" ->
             [st |-> [st EXCEPT !.F = @ @@ (n :> FloatLiteralInst(C.fp, loc)),
                                !.block = InsertBefore(@, <<n>>, User),
                                !.nextId = n + 1],
              C |-> n]
        [] C.k = "tuple" ->
             [st |-> [st EXCEPT !.F = @ @@ (n :> IntegerLiteralInst(C.val, loc))
                                        @@ (n + 1 :> IntegerLiteralInst(C.ov, loc))
                                        @@ (n + 2 :> TupleInst(<<n, n + 1>>, loc)),
                                !.block = InsertBefore(@, <<n, n + 1, n + 2>>, User),
                                !.nextId = n + 3],
              C |-> n + 2]

\* processWorkList, lines 1646-1659: the tuple_extract users of UserV take
\* the operand of the tuple TI directly.
RECURSIVE substituteTupleExtracts(_, _, _, _)
substituteTupleExtracts(st, UserV, TI, tes) ==
  IF tes = <<>> THEN st
  ELSE LET TEI == Head(tes)
           isUse == /\ TEI \in DOMAIN st.F
                    /\ st.F[TEI].kind = "tuple_extract"
                    /\ st.F[TEI].ops = <<UserV>>
           NewVal == st.F[TI].ops[st.F[TEI].field + 1]
           F1 == dropAllReferences(replaceAllUsesWith(st.F, TEI, NewVal), TEI)
           st1 == [st EXCEPT !.F = F1,
                             !.FoldedUsers = SetVectorInsert(@, TEI),
                             !.WorkList = IF hasDefiningInstruction(st.F, NewVal)
                                          THEN SetVectorInsert(@, NewVal) ELSE @]
       IN  TheOnly({substituteTupleExtracts(s, UserV, TI, Tail(tes)) :
                      s \in {IF isUse THEN st1 ELSE st}})

\* The replacement left off the worklist.
enqueueReplacement_skipped(st, Cid) == st

\* processWorkList, lines 1669-1671: the users of the replacement C are to be
\* visited in their turn.
enqueueReplacement(st, Cid) ==
  IF isSingleValueInstruction(st.F, Cid)
  THEN [st EXCEPT !.WorkList = SetVectorInsert(@, Cid)]
  ELSE st

\* The user replaced without counting it.
replaceFoldedUser_uncounted(st, User, Cid, teOrd) ==
  LET folded(s) == [s EXCEPT !.FoldedUsers = SetVectorInsert(@, User),
                             !.InvalidateInstructions = TRUE]
      tupleDone(t) == IF use_empty(t.F, User)
                      THEN [t EXCEPT !.FoldedUsers = SetVectorInsert(@, Cid)]
                      ELSE t
      extracted(s1) == IF s1.F[Cid].kind = "tuple"
                       THEN TheOnly({tupleDone(t) :
                                       t \in {substituteTupleExtracts(s1, User, Cid, teOrd)}})
                       ELSE s1
      replaced(s2) == [s2 EXCEPT !.F = replaceAllUsesWith(@, User, Cid)]
  IN  TheOnly({enqueueReplacement(s3, Cid) :
                 s3 \in {replaced(s2) : s2 \in {extracted(s1) : s1 \in {folded(st)}}}})

\* processWorkList, lines 1636-1672: the user was folded to C.
replaceFoldedUser(st, User, Cid, teOrd) ==
  LET folded(s) == [s EXCEPT !.FoldedUsers = SetVectorInsert(@, User),
                             !.NumInstFolded = @ + 1,
                             !.InvalidateInstructions = TRUE]
      tupleDone(t) == IF use_empty(t.F, User)
                      THEN [t EXCEPT !.FoldedUsers = SetVectorInsert(@, Cid)]
                      ELSE t
      extracted(s1) == IF s1.F[Cid].kind = "tuple"
                       THEN TheOnly({tupleDone(t) :
                                       t \in {substituteTupleExtracts(s1, User, Cid, teOrd)}})
                       ELSE s1
      replaced(s2) == [s2 EXCEPT !.F = replaceAllUsesWith(@, User, Cid)]
  IN  TheOnly({enqueueReplacement(s3, Cid) :
                 s3 \in {replaced(s2) : s2 \in {extracted(s1) : s1 \in {folded(st)}}}})

\* processWorkList, lines 1621-1626: the call of the folder is recorded, its
\* diagnostics are emitted and a user that resulted in error enters ErrorSet.
recordFold(st, User, out) ==
  [st EXCEPT
     !.diags = @ \o [k \in 1..Len(out.diags) |->
                       [inst |-> User, kind |-> out.diags[k]]],
     !.folds = Append(@, [user |-> User, inst |-> st.F[User],
                          args |-> OperandValues(st.F, User),
                          F |-> st.F, out |-> out]),
     !.ErrorSet = IF hasValue(out.rie) /\ out.rie = SomeTrue
                  THEN @ \cup {User} ELSE @]

\* processWorkList, lines 1636-1672, on the materialized replacement m.
replaceMaterialized(m, User, teOrd) == replaceFoldedUser(m.st, User, m.C, teOrd)

\* processWorkList, lines 1621-1672: what follows the call of the folder.
foldUser(st, User, teOrd, out) ==
  TheOnly({IF o.C.k = "null" THEN recordFold(st, User, o)
           ELSE TheOnly({replaceMaterialized(m, User, teOrd) :
                           m \in {Materialize(recordFold(st, User, o), User, o.C)}}) :
             o \in {out}})

\* processWorkList, lines 1585-1673: the body of the loop over the uses.
processUser(st, User, teOrd, c) ==
  IF inErrorSet(st.ErrorSet, User) THEN st
  ELSE IF st.F[User].kind \in {"struct", "tuple"}
  THEN [st EXCEPT !.WorkList = SetVectorInsert(@, User)]
  ELSE foldUser(IF st.F[User].kind = "cond_fail"
                THEN [st EXCEPT !.FoldedUsers = SetVectorInsert(@, User)]
                ELSE st,
                User, teOrd,
                constantFoldInstruction(st.F, User, c.isSpecialization,
                                        initialResultsInError(c.EnableDiagnostics),
                                        c.undefinedShift))

RECURSIVE processUsers(_, _, _, _)
processUsers(st, uses, teOrd, c) ==
  IF uses = <<>> THEN st
  ELSE TheOnly({processUsers(s, Tail(uses), teOrd, c) :
                  s \in {processUser(st, Head(uses)[1], teOrd, c)}})

\* The local state of processWorkList while one popped instruction is handled.
LoopState(WL) ==
  [F |-> insts, block |-> block, nextId |-> nextId, WorkList |-> WL,
   ErrorSet |-> ErrorSet, diags |-> diags, folds |-> folds,
   FoldedUsers |-> <<>>, NumInstFolded |-> NumInstFolded,
   InvalidateInstructions |-> Invalidate.Instructions,
   InvalidateBranches |-> Invalidate.Branches]

Commit(st) ==
  /\ insts' = st.F
  /\ block' = st.block
  /\ nextId' = st.nextId
  /\ WorkList' = st.WorkList
  /\ ErrorSet' = st.ErrorSet
  /\ diags' = st.diags
  /\ folds' = st.folds
  /\ NumInstFolded' = st.NumInstFolded
  /\ Invalidate' = [Invalidate EXCEPT !.Instructions = st.InvalidateInstructions,
                                      !.Branches = st.InvalidateBranches]

\* EnableDiagnostics && fpVal.isInfinity()
seedDiagnoses(F, i, EnableDiagnostics) ==
  F[i].kind = "float_literal" /\ EnableDiagnostics /\ isInfinity(F[i].fp)

\* The assert builtins seeded whatever the configuration.
isSeeded_assertsAlways(F, i, AssertConfiguration) ==
  \/ isFoldable(F, i) /\ ~use_empty(F, i)
  \/ isApplyOfBuiltin(F, i, "AssertConf")
  \/ isApplyOfBuiltin(F, i, "CondUnreachable")
  \/ isCheckedCast(F, i)
  \/ isApplyOfStringConcat(F, i)

\* initializeWorklist: whether instruction i is put on the worklist.
isSeeded(F, i, AssertConfiguration) ==
  \/ isFoldable(F, i) /\ ~use_empty(F, i)
  \/ /\ AssertConfiguration # DisableReplacement
     /\ \/ isApplyOfBuiltin(F, i, "AssertConf")
        \/ isApplyOfBuiltin(F, i, "CondUnreachable")
  \/ isCheckedCast(F, i)
  \/ isApplyOfStringConcat(F, i)

\* ConstantFolder::initializeWorklist
initializeWorklist ==
  /\ pc = "seed"
  /\ WorkList' = SelectSeq(block, LAMBDA i : isSeeded(insts, i, cfg.AssertConfiguration))
  /\ diags' = diags \o
       [k \in 1..Len(SelectSeq(block, LAMBDA i : seedDiagnoses(insts, i, cfg.EnableDiagnostics))) |->
          [inst |-> SelectSeq(block, LAMBDA i : seedDiagnoses(insts, i, cfg.EnableDiagnostics))[k],
           kind |-> "warning_float_overflows_maxbuiltin"]]
  /\ pc' = "process"
  /\ UNCHANGED <<insts, block, nextId, cfg, ErrorSet, NumInstFolded, Invalidate,
                 folds, result, input, finished>>

\* processWorkList, lines 1508-1523: an assert_configuration builtin.
replaceAssertConfiguration(st, BI, c) ==
  LET n  == st.nextId
      F1 == st.F @@ (n :> IntegerLiteralInst(APOf(st.F[BI].dstW, c.AssertConfiguration),
                                             st.F[BI].loc))
      F2 == replaceAllUsesWith(F1, BI, n)
      d  == recursivelyDeleteTriviallyDeadInstructions(
              F2, InsertBefore(st.block, <<n>>, BI), SetVectorInsert(st.WorkList, n),
              {BI}, FALSE, FALSE)
  IN  [st EXCEPT !.F = d.F, !.block = d.block, !.WorkList = d.WorkList,
                 !.nextId = n + 1, !.InvalidateInstructions = TRUE]

\* processWorkList, lines 1527-1532: a cond_unreachable builtin.
killCondUnreachable(st, BI) ==
  LET d == recursivelyDeleteTriviallyDeadInstructions(
             st.F, st.block, st.WorkList, {BI}, TRUE, FALSE)
  IN  [st EXCEPT !.F = d.F, !.block = d.block, !.WorkList = d.WorkList,
                 !.InvalidateInstructions = TRUE]

\* processWorkList, lines 1677-1685: the deletion d takes effect.
\* Instructions invalidated only when the deletion erased something.
applyDeletion_onlyWhenErased(st, d) ==
  [st EXCEPT !.F = d.F, !.block = d.block, !.WorkList = d.WorkList,
             !.InvalidateInstructions = (@ \/ d.F # st.F)]

applyDeletion(st, d) ==
  [st EXCEPT !.F = d.F, !.block = d.block, !.WorkList = d.WorkList,
             !.InvalidateInstructions = (@ \/ st.FoldedUsers # <<>>)]

\* The dead folded users deleted without the callback that takes them off
\* the worklist.
deleteFoldedUsers_noCallback(st) ==
  applyDeletion(st, recursivelyDeleteTriviallyDeadInstructions(
                      st.F, st.block, st.WorkList, SeqToSet(st.FoldedUsers),
                      FALSE, FALSE))

\* processWorkList, lines 1677-1685: the folded users that are dead go.
deleteFoldedUsers(st) ==
  applyDeletion(st, recursivelyDeleteTriviallyDeadInstructions(
                      st.F, st.block, st.WorkList, SeqToSet(st.FoldedUsers),
                      FALSE, TRUE))

\* processWorkList, lines 1582-1685: a literal (or aggregate) was popped.
foldUsers(st, uses, teOrd, c) ==
  TheOnly({deleteFoldedUsers(s) : s \in {processUsers(st, uses, teOrd, c)}})

TupleExtracts(F) == {i \in DOMAIN F : F[i].kind = "tuple_extract"}

RECURSIVE InsertAll(_, _)
InsertAll(q, xs) ==
  IF xs = <<>> THEN q ELSE InsertAll(SetVectorInsert(q, Head(xs)), Tail(xs))

\* tryToConcatenateStrings can succeed: both arguments are string values.
mayConcatenate(F, AI) ==
  /\ Len(F[AI].ops) = 3
  /\ F[F[AI].ops[2]].kind = "string"
  /\ F[F[AI].ops[3]].kind = "string"

\* The string.concat applies that use AI, which become the users of the
\* concatenated value.
ConcatUsers(F, AI) == {u \in DOMAIN F : isApplyOfStringConcat(F, u) /\ Uses(F, AI) \cap ({u} \X (1..3)) # {}}

\* constantFoldStringConcatenation, lines 1380-1409: tryToConcatenateStrings
\* built the value Concatenated in front of AI. The operands of AI that are
\* left without a use are deleted by force (each must have a defining
\* instruction: line 1394 asserts it), the string.concat users of
\* Concatenated are inserted in the order users, AI is deleted.
constantFoldStringConcatenation(st, AI, users) ==
  LET Concatenated == st.nextId
      F1 == replaceAllUsesWith(st.F @@ (Concatenated :> StringInst), AI, Concatenated)
      F2 == dropAllReferences(F1, AI)
      d1 == DeleteRounds(F2, InsertBefore(st.block, <<Concatenated>>, AI), st.WorkList,
                         {v \in SeqToSet(F1[AI].ops) :
                            hasDefiningInstruction(F2, v) /\ use_empty(F2, v)},
                         TRUE)
      d2 == DeleteRounds(d1.F, d1.block, InsertAll(d1.WorkList, users), {AI}, TRUE)
  IN  [st EXCEPT !.F = d2.F, !.block = d2.block, !.WorkList = d2.WorkList,
                 !.nextId = Concatenated + 1]

\* processWorkList, lines 1535-1543: an apply was popped; ok tells whether
\* constantFoldStringConcatenation returned true.
foldApply(st, AI, ok, users) ==
  IF ok
  THEN [constantFoldStringConcatenation(st, AI, users)
          EXCEPT !.InvalidateInstructions = TRUE]
  ELSE st

\* processWorkList, lines 1476-1480: ReplaceInstUsesAction
ReplaceInstUsesAction(st, I, V) ==
  [st EXCEPT !.InvalidateInstructions = TRUE,
             !.F = replaceAllUsesWith(st.F, I, V)]

\* processWorkList, lines 1481-1496: EraseAction
EraseAction(st, I) ==
  [st EXCEPT !.InvalidateBranches = (@ \/ isTermInst(st.F, I)),
             !.InvalidateInstructions = TRUE,
             !.WorkList = SelectNotIn(@, {I}),
             !.F = [i \in (DOMAIN st.F) \ {I} |-> st.F[i]],
             !.block = SelectNotIn(@, {I})]

\* What the cast optimizer may do with the checked cast I: nothing; while
\* the cast is simplifiable, rewrite it into a simpler checked cast of the
\* same kind, or finish it: a cast branch becomes a branch, the
\* unconditional cast its operand, the unconditional address cast goes.
CastOutcomes(F, I) ==
  {"none"} \cup
  (IF F[I].field = 0 THEN {}
   ELSE {"cast"} \cup
        (IF isTermInst(F, I) THEN {"branch"}
         ELSE IF F[I].kind = "unconditional_checked_cast" THEN {"operand"}
         ELSE {"erase"}))

\* A new instruction placed by the cast optimizer in front of I.
castCreates(st, I, new) ==
  [st EXCEPT !.F = @ @@ (st.nextId :> new),
             !.block = InsertBefore(@, <<st.nextId>>, I),
             !.nextId = @ + 1]

\* The Result of a cast optimizer that returns the cast it was given when it
\* does nothing.
unchangedCast_returned(I) == I

\* The Result of the cast optimizer when it does nothing: null.
unchangedCast(I) == 0

\* The cast optimizer on I with the given outcome: the state it leaves and
\* the instruction Result it returns (0 for none).
simplifyCast(st, I, outcome) ==
  LET n == st.nextId
      hasResult == st.F[I].kind = "unconditional_checked_cast"
      op == st.F[I].ops[1]
  IN  CASE outcome = "none" -> [st |-> st, Result |-> unchangedCast(I)]
        [] outcome = "cast" ->
             [st |-> EraseAction(
                       IF hasResult
                       THEN ReplaceInstUsesAction(
                              castCreates(st, I, CheckedCastInst(st.F[I].kind, op,
                                                                 st.F[I].field - 1)),
                              I, n)
                       ELSE castCreates(st, I, CheckedCastInst(st.F[I].kind, op,
                                                               st.F[I].field - 1)),
                       I),
              Result |-> n]
        [] outcome = "branch" ->
             [st |-> EraseAction(castCreates(st, I, BranchInst), I), Result |-> n]
        [] outcome = "operand" ->
             [st |-> EraseAction(ReplaceInstUsesAction(st, I, op), I),
              Result |-> IF hasDefiningInstruction(st.F, op) THEN op ELSE 0]
        [] outcome = "erase" -> [st |-> EraseAction(st, I), Result |-> 0]

\* processWorkList, lines 1571-1577: a Result that is a checked cast is
\* inserted into the worklist.
enqueueCastResult(r) ==
  IF r.Result # 0 /\ isCheckedCast(r.st.F, r.Result)
  THEN [r.st EXCEPT !.WorkList = SetVectorInsert(@, r.Result)]
  ELSE r.st

\* Whether handling the popped instruction I stops the program on an
\* assertion: a user of the literal I that the loop folds fails one.
assertionFails(F, I, ES) ==
  /\ isFoldable(F, I)
  /\ \E p \in Uses(F, I) : ~inErrorSet(ES, p[1]) /\ selfTruncates(F, p[1])

\* ConstantFolder::processWorkList: one iteration of the while loop.
processWorkList ==
  /\ pc = "process"
  /\ WorkList # <<>>
  /\ ~(cfg.assertions /\ assertionFails(insts, WorkList[Len(WorkList)], ErrorSet))
  /\ LET I  == WorkList[Len(WorkList)]
         st == LoopState(SubSeq(WorkList, 1, Len(WorkList) - 1))
     IN  IF cfg.AssertConfiguration # DisableReplacement
            /\ isApplyOfBuiltin(insts, I, "AssertConf")
         THEN \E s \in {replaceAssertConfiguration(st, I, cfg)} : Commit(s)
         ELSE IF cfg.AssertConfiguration # DisableReplacement
                 /\ isApplyOfBuiltin(insts, I, "CondUnreachable")
         THEN \E s \in {killCondUnreachable(st, I)} : Commit(s)
         ELSE IF insts[I].kind = "apply"
         THEN \E ok \in {FALSE, isApplyOfStringConcat(insts, I) /\ mayConcatenate(insts, I)},
                 users \in Orders(ConcatUsers(insts, I)) :
                \E s \in {foldApply(st, I, ok, users)} : Commit(s)
         ELSE IF isCheckedCast(insts, I)
         THEN \E outcome \in CastOutcomes(insts, I) :
                \E s \in {enqueueCastResult(simplifyCast(st, I, outcome))} : Commit(s)
         ELSE \E uses \in Orders(Uses(insts, I)), teOrd \in Orders(TupleExtracts(insts)) :
                \E s \in {foldUsers(st, uses, teOrd, cfg)} : Commit(s)
  /\ UNCHANGED <<cfg, pc, result, input, finished>>

\* processWorkList, lines 1688-1696: the loop is over, the result is returned.
returnInvalidation ==
  /\ pc = "process"
  /\ WorkList = <<>>
  /\ result' = {k \in {"Instructions", "Calls", "Branches"} : Invalidate[k]}
  /\ pc' = "done"
  /\ UNCHANGED <<insts, block, nextId, cfg, WorkList, ErrorSet, NumInstFolded,
                 Invalidate, diags, folds, input, finished>>

Next == initializeWorklist \/ processWorkList \/ returnInvalidation

\* The number of runs of the driver on one function.
MaxRuns == 2

\* The pass runs again on the function it left: a new ConstantFolder with
\* the same options, whose processWorkList starts with its flags false and
\* an empty ErrorSet.
rerun ==
  /\ pc = "done"
  /\ Len(finished) < MaxRuns - 1
  /\ finished' = Append(finished, [input |-> input, output |-> insts, diags |-> diags])
  /\ input' = insts
  /\ WorkList' = <<>>
  /\ ErrorSet' = {}
  /\ Invalidate' = [Instructions |-> FALSE, Calls |-> FALSE, Branches |-> FALSE]
  /\ diags' = <<>>
  /\ folds' = <<>>
  /\ result' = {}
  /\ pc' = "seed"
  /\ UNCHANGED <<insts, block, nextId, cfg, NumInstFolded>>

NextRerun == Next \/ rerun

\* The driver run once more on the same input function with the other value
\* of EnableDiagnostics; the first run is kept for comparison.
runOtherMode ==
  /\ pc = "done"
  /\ finished = <<>>
  /\ finished' = <<[input |-> input, output |-> insts, diags |-> diags,
                    block |-> block, folds |-> folds]>>
  /\ insts' = input
  /\ block' = SelectSeq([i \in 1..Len(input) |-> i], LAMBDA i : input[i].kind # "arg")
  /\ nextId' = Len(input) + 1
  /\ cfg' = [cfg EXCEPT !.EnableDiagnostics = ~@]
  /\ WorkList' = <<>>
  /\ ErrorSet' = {}
  /\ NumInstFolded' = 0
  /\ Invalidate' = [Instructions |-> FALSE, Calls |-> FALSE, Branches |-> FALSE]
  /\ diags' = <<>>
  /\ folds' = <<>>
  /\ result' = {}
  /\ pc' = "seed"
  /\ UNCHANGED input

NextBothModes == Next \/ runOtherMode

\* --------------------------------------------------- the input functions

\* An operand of the builtin under test: an integer literal, a function
\* argument, or (for the second operand) the first operand again.
LitOp(val) == [k |-> "lit", val |-> val]

ArgOp == [k |-> "arg", val |-> NoVal]

SameOp == [k |-> "same", val |-> NoVal]

OperandInst(o) ==
  IF o.k = "lit" THEN IntegerLiteralInst(o.val, Loc(TRUE, FALSE))
  ELSE IF o.k = "arg" THEN SILArgument
  ELSE IntegerLiteralInst(APOf(2, 0), Loc(TRUE, FALSE))

PlainLoc == Loc(TRUE, FALSE)

Locs == {Loc(v, a) : v \in BOOLEAN, a \in BOOLEAN}

\* %4 = builtin ID(%1, %2, %3) : (Int, Int1); its two tuple_extracts, a
\* cond_fail on the overflow bit and a consumer of the value.
OverflowFunction(ID, x, y, flag, loc) ==
  <<OperandInst(x), OperandInst(y), OperandInst(flag),
    BuiltinInst(ID, <<1, IF y.k = "same" THEN 1 ELSE 2, 3>>, 0, 0, loc),
    TupleExtractInst(4, 0, PlainLoc), TupleExtractInst(4, 1, PlainLoc),
    CondFailInst(6, PlainLoc), UseInst(<<5>>, PlainLoc)>>

\* %3 = builtin ID(%1, %2) : Int; a consumer of the value.
BinaryFunction(ID, x, y, loc) ==
  <<OperandInst(x), OperandInst(y),
    BuiltinInst(ID, <<1, IF y.k = "same" THEN 1 ELSE 2>>, 0, 0, loc),
    UseInst(<<3>>, PlainLoc)>>

\* %2 = builtin ID<Int_s, Int_d>(%1) : (Int_d, Int1) and its consumers.
ConversionFunction(ID, x, s, d, loc) ==
  <<OperandInst(x), BuiltinInst(ID, <<1>>, s, d, loc),
    TupleExtractInst(2, 0, PlainLoc), TupleExtractInst(2, 1, PlainLoc),
    CondFailInst(4, PlainLoc), UseInst(<<3>>, PlainLoc)>>

\* A float literal and its consumer, an assert_configuration builtin with a
\* consumer, a cond_unreachable builtin, and the comparison of the
\* assert_configuration with the literal 1, with its consumer.
MiscFunction(fp, w) ==
  <<FloatLiteralInst(fp, PlainLoc), UseInst(<<1>>, PlainLoc),
    BuiltinInst("AssertConf", <<>>, 0, w, PlainLoc), UseInst(<<3>>, PlainLoc),
    BuiltinInst("CondUnreachable", <<>>, 0, 0, PlainLoc),
    IntegerLiteralInst(APOf(w, 1), PlainLoc),
    BuiltinInst("ICMP_EQ", <<3, 6>>, 0, 0, PlainLoc), UseInst(<<7>>, PlainLoc)>>

\* The instructions that define the non-literal operand x of a comparison;
\* x is the last of them: a function argument, AssumeNonNegative of an
\* argument, LShr of an argument by a literal, or a tuple_extract of a checked
\* builtin on two arguments.
ArgShape == <<SILArgument>>

NonNegativeShape ==
  <<SILArgument, BuiltinInst("AssumeNonNegative", <<1>>, 0, 0, PlainLoc)>>

LShrShape(k) ==
  <<SILArgument, IntegerLiteralInst(k, PlainLoc),
    BuiltinInst("LShr", <<1, 2>>, 0, 0, PlainLoc)>>

CheckedShape(ID, flag, field) ==
  <<SILArgument, SILArgument, OperandInst(flag),
    BuiltinInst(ID, <<1, 2, 3>>, 0, 0, PlainLoc),
    TupleExtractInst(4, field, PlainLoc)>>

\* %c = builtin ID(x, lit) or builtin ID(lit, x) : Int1, and its consumer.
CompareFunction(ID, shape, lit, litFirst) ==
  LET x == Len(shape)
  IN  shape \o
      <<IntegerLiteralInst(lit, PlainLoc),
        BuiltinInst(ID, IF litFirst THEN <<x + 1, x>> ELSE <<x, x + 1>>, 0, 0, PlainLoc),
        UseInst(<<x + 2>>, PlainLoc)>>

\* An aggregate (a tuple or a struct) of a literal and of a non-literal
\* instruction, the extraction of one of its elements, and a consumer of the
\* element: an index_addr that takes it as index or an AssumeNonNegative.
\* Values 1 and 2 are arguments, 3 is the non-literal instruction, 4 the
\* literal.
StructuralFunction(agg, ops, field, consumer, lit) ==
  <<SILArgument, SILArgument,
    BuiltinInst("LShr", <<2, 2>>, 0, 0, PlainLoc),
    IntegerLiteralInst(lit, PlainLoc),
    IF agg = "tuple" THEN TupleInst(ops, PlainLoc) ELSE StructInst(ops, PlainLoc),
    IF agg = "tuple" THEN TupleExtractInst(5, field, PlainLoc)
    ELSE StructExtractInst(5, field, PlainLoc),
    IF consumer = "index_addr" THEN IndexAddrInst(1, 6, PlainLoc)
    ELSE BuiltinInst("AssumeNonNegative", <<6>>, 0, 0, PlainLoc),
    UseInst(<<7>>, PlainLoc)>>

\* Two applies of a function with the semantics sem to string values, the
\* second one taking the operands ops (5 is the first apply), and a consumer.
StringFunction(sem, ops) ==
  <<FunctionRefInst(sem), StringInst, StringInst, StringInst,
    ApplyInst(1, <<2, 3>>), ApplyInst(1, ops), UseInst(<<6>>, PlainLoc)>>

\* An unconditional_checked_cast of an argument, a checked cast of kind on
\* its result, and a consumer of the first cast.
CastFunction(kind, r1, r2) ==
  <<SILArgument, CheckedCastInst("unconditional_checked_cast", 1, r1),
    CheckedCastInst(kind, 2, r2), UseInst(<<2>>, PlainLoc)>>

LitOps(w) == {LitOp(a) : a \in APInts(w)}

Flags == {LitOp(APOf(1, 0)), LitOp(APOf(1, 1)), ArgOp}

OverflowFunctions ==
  {OverflowFunction(t[1], t[2], t[3], t[4], Loc(TRUE, t[5])) :
     t \in UNION {OverflowBuiltins \X LitOps(w) \X (LitOps(w) \cup {ArgOp, SameOp})
                    \X Flags \X BOOLEAN : w \in Widths}}

DivisionFunctions ==
  {BinaryFunction(t[1], t[2], t[3], PlainLoc) :
     t \in UNION {DivisionBuiltins \X (LitOps(w) \cup {ArgOp})
                    \X (LitOps(w) \cup {ArgOp, SameOp}) : w \in Widths}}

BitFunctions ==
  {BinaryFunction(t[1], t[2], t[3], PlainLoc) :
     t \in UNION {BitBuiltins \X (LitOps(w) \cup {ArgOp})
                    \X (LitOps(w) \cup {ArgOp, SameOp}) : w \in Widths}}

\* Source widths of the checked truncations; the destination is narrower.
SrcWidths == 3..(MaxWidth + 1)

\* The values of the Int2048 literals tried.
Int2048Values == {AP(LiteralWidth, v) : v \in (-Pow2(MaxWidth))..Pow2(MaxWidth)}

SrcValues(s) == IF s = LiteralWidth THEN Int2048Values ELSE APInts(s)

TruncFunctions ==
  {ConversionFunction(t[1], t[2], t[3], t[4], t[5]) :
     t \in UNION {TruncBuiltins \X ({LitOp(a) : a \in SrcValues(sd[1])} \cup {ArgOp})
                    \X {sd[1]} \X {sd[2]} \X Locs :
                  sd \in {p \in (SrcWidths \cup {LiteralWidth}) \X (2..MaxWidth) :
                            p[2] < p[1]}}}

SignConvFunctions ==
  {ConversionFunction(t[1], t[2], t[3], t[3], t[4]) :
     t \in UNION {SignConvBuiltins \X ({LitOp(a) : a \in SrcValues(s)} \cup {ArgOp})
                    \X {s} \X Locs : s \in Widths \cup {LiteralWidth}}}

\* The literals compared against: 0, 1, -1 and the two signed extremes.
CompareLiterals(w) ==
  {APOf(w, 0), APOf(w, 1), APOf(w, -1), AP(w, MaxSigned(w)), AP(w, MinSigned(w))}

CompareShapes(w) ==
  {ArgShape, NonNegativeShape}
    \cup {LShrShape(APOf(w, k)) : k \in {-1, 0, 1}}
    \cup {CheckedShape(ID, flag, 0) :
            ID \in {"UAddOver", "USubOver", "UMulOver", "SAddOver"}, flag \in Flags}
    \cup {CheckedShape("UAddOver", LitOp(APOf(1, 1)), 1)}

CompareFunctions ==
  {CompareFunction(t[1], t[2], t[3], t[4]) :
     t \in UNION {CompareBuiltins \X CompareShapes(w) \X CompareLiterals(w) \X BOOLEAN :
                    w \in Widths}}

StructuralFunctions ==
  {StructuralFunction(agg, ops, field, consumer, lit) :
     agg \in {"tuple", "struct"}, ops \in {<<3, 4>>, <<4, 3>>, <<4, 4>>},
     field \in {0, 1}, consumer \in {"index_addr", "AssumeNonNegative"},
     lit \in APInts(MaxWidth)}

\* The most rewrites the cast optimizer makes of one cast.
MaxSimplify == 2

DelegateFunctions ==
  {StringFunction(sem, ops) : sem \in {"string.concat", "other"},
                              ops \in {<<5, 4>>, <<4, 5>>, <<2, 4>>, <<5, 5>>}}
    \cup {CastFunction(kind, r1, r2) : kind \in CastKinds,
                                       r1 \in 0..MaxSimplify, r2 \in 0..MaxSimplify}

MiscFunctions ==
  {MiscFunction(fp, MaxWidth) :
     fp \in {APFloat(64, "Infinity", FALSE, 0, {}), APFloat(64, "Normal", FALSE, 0, {})}}

\* %2 = builtin "fptrunc"(%1) of the float literal %1 (or of an argument),
\* and its consumer; hex and cons are what the AST says of the literal and of
\* the conversion.
FPTruncFunction(srcVal, s, d, conv, hex, cons) ==
  <<IF srcVal.category = "arg" THEN SILArgument
    ELSE FloatLiteralInst(srcVal, ExprLoc(TRUE, FALSE, hex, "none")),
    FPTruncInst(1, s, d, conv, ExprLoc(TRUE, FALSE, FALSE, cons)),
    UseInst(<<2>>, PlainLoc)>>

\* The truncations the folder knows the formats of.
FormatPairs == {<<64, 32>>, <<80, 32>>, <<80, 64>>}

\* The significands tried: no bit set, one bit set, one bit and the top bit.
Significands(width) ==
  {{}} \cup {{b} : b \in 0..(width - 1)} \cup {{b, width - 1} : b \in 0..(width - 1)}

\* The exponents tried for a destination: from one below its subnormal range
\* to its smallest normal exponent.
TinyExponents(destSem) ==
  (destSem.minExponent - destSem.significandBitWidth - 1)..destSem.minExponent

\* Normal values that are tiny for the destination, converted with the
\* status of an underflow (or of an inexact normal result at minExponent).
UnderflowFunctions ==
  {FPTruncFunction(
     APFloat(t[1][1], "Normal", FALSE, t[2], t[3]), t[1][1], t[1][2],
     IF t[2] < getFPSemantics(t[1][2]).minExponent
     THEN Converted({"opUnderflow", "opInexact"}, APFloat(t[1][2], "Normal", TRUE, 0, {}))
     ELSE Converted({"opInexact"}, APFloat(t[1][2], "Normal", FALSE, t[2], {})),
     FALSE, "implicit") :
     t \in UNION {{sd} \X TinyExponents(getFPSemantics(sd[2]))
                       \X Significands(getFPSemantics(sd[1]).significandBitWidth) :
                  sd \in FormatPairs}}

\* The opStatus values: every set of status bits.
OpStatuses ==
  SUBSET {"opInvalidOp", "opDivByZero", "opOverflow", "opUnderflow", "opInexact"}

\* The source values of the truncations from IEEE64 to IEEE32: the special
\* values, a denormal, and normal values that are not tiny, tiny and exact,
\* tiny and lossy; and an operand that is no literal.
TruncatedValues ==
  {APFloat(64, c, FALSE, 0, {}) : c \in {"NaN", "Zero", "Infinity", "Normal", "arg"}}
    \cup {APFloat(64, "Normal", TRUE, -1022, {0}),
          APFloat(64, "Normal", FALSE, -127, {}),
          APFloat(64, "Normal", FALSE, -127, {29})}

FPTruncFunctions ==
  {FPTruncFunction(t[1], 64, 32,
                   Converted(t[2], APFloat(32, "Normal", t[3], 0, {})), t[4], t[5]) :
     t \in TruncatedValues \X OpStatuses \X BOOLEAN \X BOOLEAN
             \X {"none", "explicit", "implicit", "implicitDouble"}}

\* The checked truncations to a destination of the width of the source.
SameWidthTruncFunctions ==
  {ConversionFunction(t[1], LitOp(t[2]), t[2].w, t[2].w, t[3]) :
     t \in TruncBuiltins \X (UNION {APInts(w) : w \in Widths}) \X Locs}

\* %3 = builtin ID(%1, %2) : Int, whose result nothing uses.
UnusedResultFunctions ==
  {SubSeq(F, 1, 3) : F \in BitFunctions}

\* %1 = integer_literal $Int1, v; cond_fail %1; and, or not, use %1.
CondFailFunctions ==
  {<<IntegerLiteralInst(AP(1, v), PlainLoc), CondFailInst(1, PlainLoc)>> \o rest :
     v \in {0, -1}, rest \in {<<>>, <<UseInst(<<1>>, PlainLoc)>>}}

Configs(levels, specs) ==
  {[EnableDiagnostics |-> d, AssertConfiguration |-> a, isSpecialization |-> s,
    undefinedShift |-> FALSE, assertions |-> FALSE] :
     d \in BOOLEAN, a \in levels, s \in specs}

\* The state before initializeWorklist runs on function F with options c.
Start(F, c) ==
  /\ insts = F
  /\ block = SelectSeq([i \in 1..Len(F) |-> i], LAMBDA i : F[i].kind # "arg")
  /\ nextId = Len(F) + 1
  /\ cfg = c
  /\ WorkList = <<>>
  /\ ErrorSet = {}
  /\ NumInstFolded = 0
  /\ Invalidate = [Instructions |-> FALSE, Calls |-> FALSE, Branches |-> FALSE]
  /\ diags = <<>>
  /\ folds = <<>>
  /\ pc = "seed"
  /\ result = {}
  /\ input = F
  /\ finished = <<>>

\* The user-visible types and the specialization flag are read only when an
\* overflow is reported, that is when the report operand is the literal 1.
InitOverflow ==
  \E F \in OverflowFunctions, c \in Configs({DisableReplacement}, BOOLEAN) :
     /\ ReportOverflowFlag(F, 4) \/ (~c.isSpecialization /\ ~F[4].loc.ast)
     /\ Start(F, c)

InitDivision ==
  \E F \in DivisionFunctions, c \in Configs({DisableReplacement}, {FALSE}) : Start(F, c)

InitBits ==
  \E F \in BitFunctions, c \in Configs({DisableReplacement}, {FALSE}) : Start(F, c)

InitConversions ==
  \E F \in TruncFunctions \cup SignConvFunctions,
     c \in Configs({DisableReplacement}, {FALSE}) : Start(F, c)

InitMisc ==
  \E F \in MiscFunctions, c \in Configs({DisableReplacement, 0, 1, 2}, {FALSE}) :
     Start(F, c)

InitCompare ==
  \E F \in CompareFunctions, c \in Configs({DisableReplacement}, {FALSE}) : Start(F, c)

InitStructural ==
  \E F \in StructuralFunctions, c \in Configs({DisableReplacement}, {FALSE}) :
     Start(F, c)

InitDelegates ==
  \E F \in DelegateFunctions, c \in Configs({DisableReplacement}, {FALSE}) :
     Start(F, c)

InitUnderflow ==
  \E F \in UnderflowFunctions, c \in Configs({DisableReplacement}, {FALSE}),
     ub \in BOOLEAN :
     Start(F, [c EXCEPT !.undefinedShift = ub])

InitFPTrunc ==
  \E F \in FPTruncFunctions, c \in Configs({DisableReplacement}, {FALSE}) : Start(F, c)

InitTruncations ==
  \/ \E F \in TruncFunctions, c \in Configs({DisableReplacement}, {FALSE}) : Start(F, c)
  \/ \E F \in SameWidthTruncFunctions, c \in Configs({DisableReplacement}, {FALSE}),
        a \in BOOLEAN :
        Start(F, [c EXCEPT !.assertions = a])

InitUnusedResult ==
  \E F \in UnusedResultFunctions, c \in Configs({DisableReplacement}, {FALSE}) :
     Start(F, c)

InitCondFail ==
  \E F \in CondFailFunctions, c \in Configs({DisableReplacement}, {FALSE}) :
     Start(F, c)

\* Functions with runs that change nothing, with and without a cond_fail
\* among the users of a literal.
InitInvalidation ==
  InitCondFail \/ InitOverflow \/ InitCompare

\* The functions whose only new instructions are the replacements of folds.
InitFolds ==
  InitOverflow \/ InitDivision \/ InitBits \/ InitCompare \/ InitUnusedResult

\* The functions run in both modes: those whose folds can be diagnosed.
InitBothModes ==
  InitOverflow \/ InitDivision \/ InitMisc \/ InitConversions \/ InitFPTrunc

Init ==
  \/ InitOverflow \/ InitDivision \/ InitBits \/ InitConversions \/ InitMisc
  \/ InitCompare \/ InitStructural \/ InitDelegates

\* The functions on which the driver runs twice: the delegates, whose
\* outcome is not a function of their input, are left out.
InitRerun == InitDivision \/ InitBits \/ InitMisc \/ InitStructural

InitTermination == InitDelegates \/ InitMisc \/ InitStructural \/ InitDivision

Spec == Init /\ [][Next]_vars

SpecOverflow == InitOverflow /\ [][Next]_vars

SpecDivision == InitDivision /\ [][Next]_vars

SpecBits == InitBits /\ [][Next]_vars

SpecConversions == InitConversions /\ [][Next]_vars

SpecCompare == InitCompare /\ [][Next]_vars

SpecStructural == InitStructural /\ [][Next]_vars

SpecDelegates == InitDelegates /\ [][Next]_vars

SpecUnderflow == InitUnderflow /\ [][Next]_vars

SpecFPTrunc == InitFPTrunc /\ [][Next]_vars

SpecTruncations == InitTruncations /\ [][Next]_vars

SpecInvalidation == InitInvalidation /\ [][Next]_vars

SpecFolds == InitFolds /\ [][Next]_vars

SpecBothModes == InitBothModes /\ [][NextBothModes]_vars

SpecRerun == InitRerun /\ [][NextRerun]_vars

\* The while loop of processWorkList runs on as long as the worklist is not
\* empty, and the return follows it.
SpecTermination == InitTermination /\ [][Next]_vars /\ WF_vars(Next)

\* ============================================================ properties

\* The calls of the folder recorded so far.
FoldCalls == {folds[k] : k \in 1..Len(folds)}

BothLiteral(e) == Len(e.args) >= 2 /\ e.args[1].lit /\ e.args[2].lit

Replaced(e) == e.out.C.k # "null"

\* The mathematical result of a checked operation on x and y, each read under
\* the signedness of the operation.
SignedOp(ID) == ID \in {"SAddOver", "SSubOver", "SMulOver", "SDiv", "SRem"}

Reading(ID, a) == IF SignedOp(ID) THEN a.v ELSE ZExtValue(a)

MathResult(ID, x, y) ==
  CASE ID \in {"SAddOver", "UAddOver"} -> Reading(ID, x) + Reading(ID, y)
    [] ID \in {"SSubOver", "USubOver"} -> Reading(ID, x) - Reading(ID, y)
    [] ID \in {"SMulOver", "UMulOver"} -> Reading(ID, x) * Reading(ID, y)

FitsIn(ID, w, m) ==
  IF SignedOp(ID) THEN MinSigned(w) <= m /\ m <= MaxSigned(w)
  ELSE 0 <= m /\ m < Pow2(w)

OverflowDiagnostics ==
  {"arithmetic_operation_overflow", "arithmetic_operation_overflow_generic_type"}

\* A checked operation on two literals that overflows, with the report
\* operand the literal 1, folded with diagnostics enabled outside a
\* specialization.
ReportedOverflowCase(e) ==
  /\ e.inst.ID \in OverflowBuiltins
  /\ BothLiteral(e)
  /\ e.args[3].lit /\ ZExtValue(e.args[3].val) = 1
  /\ ~FitsIn(e.inst.ID, e.args[1].val.w, MathResult(e.inst.ID, e.args[1].val, e.args[2].val))
  /\ cfg.EnableDiagnostics
  /\ ~cfg.isSpecialization

\* C1 as stated: in the reported-overflow case the fold emits exactly one
\* arithmetic_operation_overflow(_generic_type) diagnostic, produces no
\* replacement, and the builtin stays in the function.
C1_OverflowNotFolded ==
  \A e \in FoldCalls :
    ReportedOverflowCase(e) =>
      /\ Len(e.out.diags) = 1
      /\ e.out.diags[1] \in OverflowDiagnostics
      /\ ~Replaced(e)
      /\ e.user \in DOMAIN insts

\* C1 as amended: in the reported-overflow case the fold emits exactly one
\* arithmetic_operation_overflow(_generic_type) diagnostic and sets the
\* results-in-error flag, and it still produces the replacement tuple (wrapped
\* result, overflow 1): the builtin enters the error set and every use of it
\* is rewritten, it is not retained.
C1_OverflowDiagnosedAndFolded ==
  \A e \in FoldCalls :
    ReportedOverflowCase(e) =>
      /\ Len(e.out.diags) = 1
      /\ e.out.diags[1] \in OverflowDiagnostics
      /\ e.out.rie = SomeTrue
      /\ e.out.C = TupleC(APOf(e.args[1].val.w,
                               MathResult(e.inst.ID, e.args[1].val, e.args[2].val)),
                          APOf(1, 1))
      /\ e.user \in ErrorSet
      /\ \A i \in DOMAIN insts : e.user \notin SeqToSet(insts[i].ops)

\* The scenario of the specification at the model's widths: the signed add
\* of the largest signed value and 1, reported.
C1_Witness ==
  \E e \in FoldCalls :
    /\ ReportedOverflowCase(e)
    /\ e.inst.ID = "SAddOver"
    /\ isMaxSignedValue(e.args[1].val)
    /\ e.args[2].val.v = 1
    /\ pc = "done"

DivisionCalls == {e \in FoldCalls : e.inst.ID \in DivisionBuiltins}

ZeroDivisor(e) == e.args[2].lit /\ e.args[2].val.v = 0

\* Every call made to the division kernel has a non-zero divisor.
DivKernelNeverZero ==
  \A e \in FoldCalls : \A k \in 1..Len(e.out.kernel) :
    e.out.kernel[k].fn = "constantFoldDiv" => e.out.kernel[k].rhs.v # 0

\* C3: a division or remainder by a literal zero is never replaced, whether
\* or not the numerator is a literal; with diagnostics enabled it emits
\* exactly one division_by_zero and the instruction is marked as resulting in
\* error, with diagnostics disabled it emits nothing; the division kernel is
\* never called with a zero divisor.
C3_DivisionByZero ==
  /\ \A e \in DivisionCalls :
       ZeroDivisor(e) =>
         /\ ~Replaced(e)
         /\ e.user \in DOMAIN insts
         /\ cfg.EnableDiagnostics =>
              /\ e.out.diags = <<"division_by_zero">>
              /\ e.out.rie = SomeTrue
              /\ e.user \in ErrorSet
         /\ ~cfg.EnableDiagnostics => e.out.diags = <<>> /\ e.user \notin ErrorSet
  /\ DivKernelNeverZero

\* A zero divisor under a numerator that is not a literal, diagnosed.
C3_Witness ==
  \E e \in DivisionCalls :
    ZeroDivisor(e) /\ ~e.args[1].lit /\ cfg.EnableDiagnostics /\ pc = "done"

\* C4: with literal operands and a non-zero divisor, SDiv and SRem overflow
\* exactly for the minimum signed value divided by -1, and then nothing is
\* replaced and, with diagnostics enabled, exactly one division_overflow is
\* emitted; UDiv and URem never overflow; without overflow the replacement is
\* the literal holding the truncating quotient or remainder.
C4_DivisionOverflow ==
  \A e \in DivisionCalls :
    (BothLiteral(e) /\ e.args[2].val.v # 0) =>
      LET x  == e.args[1].val
          y  == e.args[2].val
          ID == e.inst.ID
          overflows == SignedOp(ID) /\ x.v = MinSigned(x.w) /\ y.v = -1
      IN  IF overflows
          THEN /\ ~Replaced(e)
               /\ e.out.diags = IF cfg.EnableDiagnostics
                                THEN <<"division_overflow">> ELSE <<>>
               /\ cfg.EnableDiagnostics => e.user \in ErrorSet
          ELSE /\ e.out.diags = <<>>
               /\ e.out.C.k = "literal"
               /\ e.out.C.val.w = x.w
               /\ Reading(ID, e.out.C.val) =
                    CASE ID = "SDiv" -> TruncDiv(x.v, y.v)
                      [] ID = "SRem" -> TruncRem(x.v, y.v)
                      [] ID = "UDiv" -> ZExtValue(x) \div ZExtValue(y)
                      [] ID = "URem" -> ZExtValue(x) % ZExtValue(y)

\* The remainder of the minimum signed value by -1 at the largest width,
\* diagnosed.
C4_Witness ==
  /\ pc = "done"
  /\ \E e \in DivisionCalls :
       /\ e.inst.ID = "SRem" /\ BothLiteral(e) /\ cfg.EnableDiagnostics
       /\ isMinSignedValue(e.args[1].val) /\ e.args[2].val.v = -1
       /\ e.out.diags = <<"division_overflow">>
       /\ e.args[1].val.w = MaxWidth

\* C5: with diagnostics disabled no diagnostic is emitted, at seeding or by
\* any fold, and no instruction enters the error set.
C5_SilentWhenDisabled ==
  ~cfg.EnableDiagnostics =>
    /\ diags = <<>>
    /\ ErrorSet = {}
    /\ \A e \in FoldCalls : e.out.diags = <<>> /\ e.out.rie = None

BitCalls == {e \in FoldCalls : e.inst.ID \in BitBuiltins /\ BothLiteral(e)}

\* The value a shift of x by c positions leaves in the width of x.
ShiftResult(ID, x, c) ==
  CASE ID = "Shl"  -> Wrap(x.w, ZExtValue(x) * Pow2(c))
    [] ID = "LShr" -> Wrap(x.w, ZExtValue(x) \div Pow2(c))
    [] ID = "AShr" -> IF x.v >= 0 THEN x.v \div Pow2(c)
                      ELSE -(((-x.v) + Pow2(c) - 1) \div Pow2(c))

\* C6: a shift of two literals of width w whose count, read as unsigned, is
\* at least w emits shifting_all_significant_bits and is not replaced; a
\* smaller count yields the literal of the shifted value, and the kernel is
\* only called on a shift with a count below w; And, Or and Xor of two
\* literals always yield a literal.
C6_ShiftCount ==
  /\ \A e \in BitCalls :
       LET x == e.args[1].val
           c == ZExtValue(e.args[2].val)
       IN  IF e.inst.ID \in ShiftBuiltins
           THEN IF c >= x.w
                THEN /\ e.out.diags = <<"shifting_all_significant_bits">>
                     /\ ~Replaced(e)
                     /\ e.out.kernel = <<>>
                ELSE /\ e.out.diags = <<>>
                     /\ e.out.C = LiteralC(AP(x.w, ShiftResult(e.inst.ID, x, c)))
           ELSE e.out.C.k = "literal" /\ e.out.C.val.w = x.w /\ e.out.diags = <<>>
  /\ \A e \in FoldCalls : \A k \in 1..Len(e.out.kernel) :
       (e.out.kernel[k].fn = "constantFoldBitOperation"
          /\ e.out.kernel[k].ID \in ShiftBuiltins) =>
         ZExtValue(e.out.kernel[k].rhs) < e.out.kernel[k].lhs.w

\* An arithmetic shift of a negative literal at the largest width, by
\* exactly the width and rejected or by one less and folded.
C6_Witness ==
  /\ pc = "done"
  /\ \E e \in BitCalls :
       /\ e.inst.ID = "AShr"
       /\ e.args[1].val.w = MaxWidth
       /\ ZExtValue(e.args[2].val) \in {MaxWidth - 1, MaxWidth}
       /\ (ZExtValue(e.args[2].val) = MaxWidth) <=> ~Replaced(e)
       /\ e.args[1].val.v < 0

\* The low n bits of v, as a natural number.
LowBits(v, n) == v % Pow2(n)

\* The n-bit pattern u read as a signed number.
SignedReading(u, n) == IF u >= Pow2(n - 1) THEN u - Pow2(n) ELSE u

TruncCalls == {e \in FoldCalls : e.inst.ID \in TruncBuiltins /\ e.args[1].lit}

ConversionCalls ==
  {e \in FoldCalls : e.inst.ID \in ConversionBuiltins /\ e.args[1].lit}

SourceSigned(ID) ==
  ID \in {"SToSCheckedTrunc", "SToUCheckedTrunc", "SUCheckedConversion"}

DestinationSigned(ID) ==
  ID \in {"SToSCheckedTrunc", "UToSCheckedTrunc", "USCheckedConversion"}

\* C7 as stated: a checked truncation of a literal from width s to width d
\* is rejected exactly when the input differs from the extension back to s
\* of its low d bits, the extension being by sign if the source is signed
\* and by zero if the source is unsigned.
C7_RoundTripBySourceSign ==
  \A e \in TruncCalls :
    LET v   == e.args[1].val.v
        low == LowBits(v, e.inst.dstW)
    IN  ~Replaced(e) <=>
          IF SourceSigned(e.inst.ID) THEN v # SignedReading(low, e.inst.dstW)
          ELSE v # low

\* C7 as amended: a checked truncation of a literal from width s to a
\* narrower width d is rejected exactly when the input differs from: the
\* sign-extension of its low d bits for SToSCheckedTrunc; the zero-extension
\* of its low d bits for UToUCheckedTrunc and SToUCheckedTrunc; the
\* zero-extension of its low d-1 bits for UToSCheckedTrunc.  That is, exactly
\* when the source value, read under the source signedness, is not
\* representable in d bits under the destination signedness.
C7_RoundTripByConversion ==
  \A e \in TruncCalls :
    LET v  == e.args[1].val.v
        d  == e.inst.dstW
        ID == e.inst.ID
    IN  /\ d < e.inst.srcW
        /\ ~Replaced(e) <=>
             CASE ID = "SToSCheckedTrunc" -> v # SignedReading(LowBits(v, d), d)
               [] ID = "UToSCheckedTrunc" -> v # LowBits(v, d - 1)
               [] OTHER                   -> v # LowBits(v, d)
        /\ Replaced(e) => e.out.C.val = AP(d, SignedReading(LowBits(v, d), d))

\* The literal -1 truncated from signed to unsigned and rejected, where the
\* sign-extension of its low d bits would give the input back.
C7_Witness ==
  /\ pc = "done"
  /\ \E e \in TruncCalls :
       /\ e.inst.ID = "SToUCheckedTrunc"
       /\ e.args[1].val.v = -1
       /\ ~Replaced(e)
       /\ cfg.EnableDiagnostics

\* C8: SUCheckedConversion and USCheckedConversion of a literal are rejected
\* exactly when the sign bit of the source is set; every replacement a
\* checked conversion produces is a tuple whose overflow component is the
\* 1-bit 0, and for the same-width forms its result is the source value.
C8_SignConversions ==
  \A e \in ConversionCalls :
    /\ e.inst.ID \in SignConvBuiltins =>
         /\ ~Replaced(e) <=> (e.args[1].val.v < 0)
         /\ Replaced(e) => e.out.C.val = e.args[1].val
    /\ Replaced(e) =>
         /\ e.out.C.k = "tuple"
         /\ e.out.C.ov = AP(1, 0)
         /\ e.out.C.val.w = e.inst.dstW
         /\ e.out.diags = <<>>

\* The unsigned-to-signed form at the largest width, on the smallest
\* rejected source or on the largest accepted source, then deleted.
C8_Witness ==
  /\ pc = "done"
  /\ \E e \in ConversionCalls :
       /\ e.inst.ID = "USCheckedConversion"
       /\ e.args[1].val.w = MaxWidth
       /\ \/ isMinSignedValue(e.args[1].val) /\ ~Replaced(e)
          \/ isMaxSignedValue(e.args[1].val) /\ Replaced(e) /\ e.user \notin DOMAIN insts

LiteralOverflowKinds ==
  {"integer_literal_overflow", "negative_integer_literal_overflow_unsigned",
   "integer_literal_overflow_builtin_types", "integer_literal_overflow_warn"}

ConversionOverflowKinds ==
  {"integer_conversion_overflow", "integer_conversion_overflow_builtin_types",
   "integer_conversion_sign_error", "integer_conversion_overflow_warn"}

WarnKinds == {"integer_literal_overflow_warn", "integer_conversion_overflow_warn"}

\* The source value does not fit the destination of the conversion.
ConversionOverflows(e) ==
  LET v == e.args[1].val.v
      d == e.inst.dstW
  IN  CASE e.inst.ID \in SignConvBuiltins   -> v < 0
        [] e.inst.ID = "SToSCheckedTrunc"   -> v # SignedReading(LowBits(v, d), d)
        [] e.inst.ID = "UToSCheckedTrunc"   -> v # LowBits(v, d - 1)
        [] OTHER                            -> v # LowBits(v, d)

\* C9: a checked conversion of a literal that overflows with diagnostics
\* enabled is not replaced and emits exactly one diagnostic: a
\* literal-overflow kind if and only if the source width is 2048, otherwise a
\* conversion kind; a _warn kind exactly when the source location is invalid;
\* negative_integer_literal_overflow_unsigned only for a negative value
\* converted from signed to unsigned.
C9_ConversionDiagnostic ==
  \A e \in ConversionCalls :
    (ConversionOverflows(e) /\ cfg.EnableDiagnostics) =>
      /\ ~Replaced(e)
      /\ Len(e.out.diags) = 1
      /\ LET kind == e.out.diags[1]
         IN  /\ kind \in LiteralOverflowKinds <=> (e.inst.srcW = LiteralWidth)
             /\ kind \in ConversionOverflowKinds <=> (e.inst.srcW # LiteralWidth)
             /\ kind \in WarnKinds <=> ~e.inst.loc.valid
             /\ kind = "negative_integer_literal_overflow_unsigned" =>
                  /\ SourceSigned(e.inst.ID)
                  /\ ~DestinationSigned(e.inst.ID)
                  /\ e.args[1].val.v < 0

\* A negative literal expression converted to an unsigned type, diagnosed
\* as such.
C9_Witness ==
  /\ pc = "done"
  /\ \E e \in ConversionCalls :
       /\ e.inst.srcW = LiteralWidth
       /\ e.out.diags = <<"negative_integer_literal_overflow_unsigned">>
       /\ e.user \in ErrorSet

\* C10: no instruction emits the same diagnostic twice; once a fold has set
\* the results-in-error flag its user is in the error set in every later
\* state and no later call of the folder is on that user.
C10_DiagnosedOnce ==
  /\ \A i, j \in 1..Len(diags) : diags[i] = diags[j] => i = j
  /\ \A i \in 1..Len(folds) :
       folds[i].out.rie = SomeTrue =>
         /\ folds[i].user \in ErrorSet
         /\ \A j \in (i + 1)..Len(folds) : folds[j].user # folds[i].user

\* A diagnosed user with two different literal operands, after both were
\* taken from the worklist.
C10_Witness ==
  /\ pc = "done"
  /\ WorkList = <<>>
  /\ \E e \in FoldCalls :
       /\ e.out.rie = SomeTrue
       /\ BothLiteral(e)
       /\ e.inst.ops[1] # e.inst.ops[2]
       /\ Len(diags) = 1

\* The calls of the folder on a comparison with exactly one literal operand.
\* x is the non-literal operand, lit the literal one, litFirst its position.
MixedCompares ==
  {e \in FoldCalls : /\ e.inst.ID \in CompareBuiltins
                     /\ e.args[1].lit # e.args[2].lit}

LitFirst(e) == e.args[1].lit

XOf(e) == IF LitFirst(e) THEN e.inst.ops[2] ELSE e.inst.ops[1]

LitOf(e) == IF LitFirst(e) THEN e.args[1].val ELSE e.args[2].val

\* The comparison reads "x pred lit" for one of the predicates of preds, when
\* the operands are put in that order.
XvsLit(e, lt, gt) ==
  \/ ~LitFirst(e) /\ e.inst.ID = lt
  \/ LitFirst(e) /\ e.inst.ID = gt

FoldsTo(e, bit) ==
  e.out.C = LiteralC(AP(1, IF bit = 1 THEN -1 ELSE 0)) /\ e.out.diags = <<>>

IsAssumeNonNegative(F, v) == F[v].kind = "builtin" /\ F[v].ID = "AssumeNonNegative"

\* v is element 0 of an unsigned checked builtin whose report operand is the
\* literal 1.
IsCheckedUnsigned(F, v) ==
  /\ F[v].kind = "tuple_extract" /\ F[v].field = 0
  /\ LET B == F[F[v].ops[1]]
     IN  /\ B.kind = "builtin"
         /\ B.ID \in {"UAddOver", "USubOver", "UMulOver"}
         /\ F[B.ops[3]].kind = "integer_literal"
         /\ ZExtValue(F[B.ops[3]].val) = 1

\* C16 as stated: against a literal zero, x < 0 and 0 > x (unsigned) fold to
\* 0 and x >= 0 and 0 <= x (unsigned) fold to 1 for every non-literal x,
\* without a diagnostic; the signed forms fold, to 0 and to 1, exactly when x
\* is the result of AssumeNonNegative.
C16_ZeroComparisons ==
  \A e \in MixedCompares :
    LitOf(e).v = 0 =>
      /\ XvsLit(e, "ICMP_ULT", "ICMP_UGT") => FoldsTo(e, 0)
      /\ XvsLit(e, "ICMP_UGE", "ICMP_ULE") => FoldsTo(e, 1)
      /\ XvsLit(e, "ICMP_SLT", "ICMP_SGT") =>
           (FoldsTo(e, 0) <=> IsAssumeNonNegative(e.F, XOf(e)))
      /\ XvsLit(e, "ICMP_SGE", "ICMP_SLE") =>
           (FoldsTo(e, 1) <=> IsAssumeNonNegative(e.F, XOf(e)))

\* C16 as amended: the unsigned forms as stated; the signed forms fold, to 0
\* and to 1, exactly when x is the result of AssumeNonNegative or, for the
\* forms written x < 0 and x >= 0, x is element 0 of a UAddOver, USubOver or
\* UMulOver whose report operand is the literal 1; otherwise they are not
\* replaced.
C16_ZeroComparisonsAndChecked ==
  \A e \in MixedCompares :
    LitOf(e).v = 0 =>
      /\ XvsLit(e, "ICMP_ULT", "ICMP_UGT") => FoldsTo(e, 0)
      /\ XvsLit(e, "ICMP_UGE", "ICMP_ULE") => FoldsTo(e, 1)
      /\ XvsLit(e, "ICMP_SLT", "ICMP_SGT") =>
           /\ FoldsTo(e, 0) <=>
                \/ IsAssumeNonNegative(e.F, XOf(e))
                \/ ~LitFirst(e) /\ IsCheckedUnsigned(e.F, XOf(e))
           /\ FoldsTo(e, 0) \/ ~Replaced(e)
      /\ XvsLit(e, "ICMP_SGE", "ICMP_SLE") =>
           /\ FoldsTo(e, 1) <=>
                \/ IsAssumeNonNegative(e.F, XOf(e))
                \/ ~LitFirst(e) /\ IsCheckedUnsigned(e.F, XOf(e))
           /\ FoldsTo(e, 1) \/ ~Replaced(e)

\* The signed x < 0 folded to 0 where x is element 0 of a reported unsigned
\* checked addition, not an AssumeNonNegative.
C16_Witness ==
  /\ pc = "done"
  /\ \E e \in MixedCompares :
       /\ e.inst.ID = "ICMP_SLT" /\ ~LitFirst(e) /\ LitOf(e).v = 0
       /\ IsCheckedUnsigned(e.F, XOf(e))
       /\ FoldsTo(e, 0)
       /\ e.user \notin DOMAIN insts

IsPositiveLShr(F, v) ==
  /\ F[v].kind = "builtin" /\ F[v].ID = "LShr"
  /\ F[F[v].ops[2]].kind = "integer_literal"
  /\ F[F[v].ops[2]].val.v > 0

\* The comparison reads "lit pred x".
LitvsX(e, lt, gt) == XvsLit(e, gt, lt)

\* C17: against the literal MAX, the largest signed value of the width, the
\* signed MAX < x and x > MAX fold to 0 and MAX >= x and x <= MAX fold to 1
\* for every non-literal x; the unsigned forms fold the same way exactly when
\* x is LShr(_, k) with a literal k that is positive as a signed number; with
\* a literal other than MAX none of these eight forms is replaced.
C17_IntMaxComparisons ==
  \A e \in MixedCompares :
    LET max == LitOf(e).v = MaxSigned(LitOf(e).w)
        shr == IsPositiveLShr(e.F, XOf(e))
    IN  /\ LitvsX(e, "ICMP_SLT", "ICMP_SGT") =>
             IF max THEN FoldsTo(e, 0) ELSE ~Replaced(e)
        /\ LitvsX(e, "ICMP_SGE", "ICMP_SLE") =>
             IF max THEN FoldsTo(e, 1) ELSE ~Replaced(e)
        /\ LitvsX(e, "ICMP_ULT", "ICMP_UGT") =>
             IF max /\ shr THEN FoldsTo(e, 0) ELSE ~Replaced(e)
        /\ LitvsX(e, "ICMP_UGE", "ICMP_ULE") =>
             IF max /\ shr THEN FoldsTo(e, 1) ELSE ~Replaced(e)

\* The unsigned x <= MAX folded to 1 for x a logical shift right by 1.
C17_Witness ==
  /\ pc = "done"
  /\ \E e \in MixedCompares :
       /\ e.inst.ID = "ICMP_ULE" /\ ~LitFirst(e)
       /\ LitOf(e) = AP(MaxWidth, MaxSigned(MaxWidth))
       /\ IsPositiveLShr(e.F, XOf(e))
       /\ FoldsTo(e, 1)

\* C18: for x the tuple_extract of a builtin B, the signed x < 0 folds to 0
\* and x >= 0 folds to 1 when B is UAddOver, USubOver or UMulOver with the
\* literal 1 as report operand and the element extracted is 0; when the
\* report operand is not the literal 1, or B is another builtin, or the
\* element is not 0, the comparison is not replaced.
C18_CheckedUnsignedIsNonNegative ==
  \A e \in MixedCompares :
    (~LitFirst(e) /\ LitOf(e).v = 0 /\ e.F[XOf(e)].kind = "tuple_extract"
       /\ e.inst.ID \in {"ICMP_SLT", "ICMP_SGE"}) =>
      IF IsCheckedUnsigned(e.F, XOf(e))
      THEN FoldsTo(e, IF e.inst.ID = "ICMP_SLT" THEN 0 ELSE 1)
      ELSE ~Replaced(e)

\* x >= 0 folded to 1 on element 0 of a reported UMulOver, and the
\* comparison left the function.
C18_Witness ==
  /\ pc = "done"
  /\ \E e \in MixedCompares :
       /\ e.inst.ID = "ICMP_SGE" /\ ~LitFirst(e)
       /\ IsCheckedUnsigned(e.F, XOf(e))
       /\ e.F[e.F[XOf(e)].ops[1]].ID = "UMulOver"
       /\ FoldsTo(e, 1)
       /\ e.user \notin DOMAIN insts

\* The calls of the folder on the structural instructions.
StructuralCalls ==
  {e \in FoldCalls : e.inst.kind \in {"tuple_extract", "struct_extract", "index_addr"}}

\* The fold returned a value the function already had and created nothing.
ReturnsExisting(e, v) ==
  /\ e.out.C = ValueC(v)
  /\ v \in DOMAIN e.F
  /\ e.out.diags = <<>>

\* C19: the extraction of element i of a tuple, or of a struct, just built
\* folds to the i-th operand of the aggregate, an index_addr folds to its
\* base exactly when its index is an integer literal equal to 0 and is not
\* replaced otherwise, and no instruction is ever added to the function.
C19_StructuralFolds ==
  /\ \A e \in StructuralCalls :
       LET F == e.F
           op == e.inst.ops[1]
       IN  /\ (e.inst.kind = "tuple_extract" /\ F[op].kind = "tuple") =>
                ReturnsExisting(e, F[op].ops[e.inst.field + 1])
           /\ (e.inst.kind = "struct_extract" /\ F[op].kind = "struct") =>
                ReturnsExisting(e, F[op].ops[e.inst.field + 1])
           /\ e.inst.kind = "index_addr" =>
                IF e.args[2].lit /\ e.args[2].val.v = 0
                THEN ReturnsExisting(e, op)
                ELSE ~Replaced(e)
  /\ folds # <<>> => DOMAIN insts \subseteq DOMAIN folds[1].F

\* A struct_extract folded to the literal 0 element of its struct, then the
\* index_addr that took it as index folded to its base, which the consumer
\* of the index_addr now uses.
C19_Witness ==
  /\ pc = "done"
  /\ \E e, x \in StructuralCalls :
       /\ x.inst.kind = "struct_extract" /\ Replaced(x)
       /\ e.inst.kind = "index_addr" /\ e.inst.ops[2] = x.out.C.id
       /\ ReturnsExisting(e, e.inst.ops[1])
       /\ e.user \notin DOMAIN insts
       /\ \E u \in DOMAIN insts : insts[u].kind = "use" /\ insts[u].ops = <<e.inst.ops[1]>>

\* The calls of the folder on AssumeNonNegative.
AssumeCalls == {e \in FoldCalls : e.inst.ID = "AssumeNonNegative"}

\* C20: AssumeNonNegative of a literal folds to that literal, an instruction
\* the function already has, whether or not the value is negative; the only
\* diagnostic is wrong_non_negative_assumption and it is emitted exactly when
\* the value is negative and diagnostics are enabled; with a non-literal
\* operand nothing is folded and nothing emitted.
C20_AssumeNonNegative ==
  \A e \in AssumeCalls :
    IF e.args[1].lit
    THEN /\ e.out.C = ValueC(e.inst.ops[1])
         /\ e.inst.ops[1] \in DOMAIN e.F
         /\ e.out.diags = IF e.args[1].val.v < 0 /\ cfg.EnableDiagnostics
                          THEN <<"wrong_non_negative_assumption">> ELSE <<>>
    ELSE ~Replaced(e) /\ e.out.diags = <<>>

\* With diagnostics enabled AssumeNonNegative of a negative literal was
\* diagnosed and still replaced by the literal, which its consumer now uses.
C20_Witness ==
  /\ pc = "done"
  /\ cfg.EnableDiagnostics
  /\ \E e \in AssumeCalls :
       /\ e.args[1].lit /\ e.args[1].val.v < 0
       /\ [inst |-> e.user, kind |-> "wrong_non_negative_assumption"] \in SeqToSet(diags)
       /\ e.user \notin DOMAIN insts
       /\ \E u \in DOMAIN insts : insts[u].kind = "use" /\ insts[u].ops = <<e.inst.ops[1]>>

\* C14: no instruction is on the worklist twice.
C14_WorkListHasNoDuplicate ==
  \A i, j \in 1..Len(WorkList) : WorkList[i] = WorkList[j] => i = j

\* A literal that an aggregate uses in two operands was popped: the loop over
\* its uses inserted the aggregate twice, and the aggregate is pending once.
C14_Witness ==
  /\ pc = "process"
  /\ \E t \in SeqToSet(WorkList) :
       /\ insts[t].kind \in {"tuple", "struct"}
       /\ Len(insts[t].ops) = 2
       /\ insts[t].ops[1] = insts[t].ops[2]
       /\ isIntegerLiteral(insts, insts[t].ops[1])
       /\ insts[t].ops[1] \notin SeqToSet(WorkList)
       /\ Cardinality({k \in 1..Len(WorkList) : WorkList[k] = t}) = 1

\* The instructions of the input function that the run took out of it.
Gone == {i \in DOMAIN input : i \notin DOMAIN insts}

\* C13: the invalidation returned contains Calls when a call of the input
\* function was replaced (a string.concat apply folded by the string folder),
\* Branches when a terminator was erased, and Instructions when the function
\* was changed in any way.
C13_InvalidationSet ==
  pc = "done" =>
    /\ (\E i \in Gone : input[i].kind = "apply") => "Calls" \in result
    /\ (\E i \in Gone : isTermInst(input, i)) => "Branches" \in result
    /\ insts # input => "Instructions" \in result

\* The assert_configuration and cond_unreachable builtins of function F.
AssertBuiltins(F) ==
  {i \in DOMAIN F : isApplyOfBuiltin(F, i, "AssertConf")
                      \/ isApplyOfBuiltin(F, i, "CondUnreachable")}

\* C15: with AssertConfiguration = DisableReplacement the assert_configuration
\* and cond_unreachable builtins of the input are never on the worklist and
\* stay in the function with the uses they had; with any other level, when
\* the driver is done every assert_configuration builtin of the input is out
\* of the function and each of its former uses, in a user that is still in
\* the function, refers to an integer literal whose value is the level.
C15_AssertConfiguration ==
  IF cfg.AssertConfiguration = DisableReplacement
  THEN \A b \in AssertBuiltins(input) :
         /\ b \notin SeqToSet(WorkList)
         /\ b \in DOMAIN insts /\ insts[b] = input[b]
         /\ Uses(insts, b) = Uses(input, b)
  ELSE pc = "done" =>
         \A b \in DOMAIN input :
           isApplyOfBuiltin(input, b, "AssertConf") =>
             /\ b \notin DOMAIN insts
             /\ \A p \in Uses(input, b) :
                  p[1] \in DOMAIN insts =>
                    /\ isIntegerLiteral(insts, insts[p[1]].ops[p[2]])
                    /\ insts[insts[p[1]].ops[p[2]]].val.v = cfg.AssertConfiguration

\* The driver is done with the level 2: the assert_configuration builtin is
\* out of the function, one of its users now uses a literal 2, another was
\* folded with it, and the cond_unreachable builtin is out of the function.
C15_Witness ==
  /\ pc = "done"
  /\ cfg.AssertConfiguration = 2
  /\ \E b \in AssertBuiltins(input) :
       /\ input[b].ID = "AssertConf" /\ b \notin DOMAIN insts
       /\ \E p, q \in Uses(input, b) :
            /\ p[1] \in DOMAIN insts
            /\ isIntegerLiteral(insts, insts[p[1]].ops[p[2]])
            /\ insts[insts[p[1]].ops[p[2]]].val.v = 2
            /\ q[1] \notin DOMAIN insts
  /\ \E b \in AssertBuiltins(input) :
       /\ input[b].ID = "CondUnreachable" /\ b \notin DOMAIN insts

\* C12: the loop of processWorkList terminates: the worklist becomes empty
\* and the driver returns.
C12_Terminates == <>(pc = "done" /\ WorkList = <<>>)

\* The driver returned after the cast optimizer rewrote a cast into a new
\* cast, which was put on the worklist in its turn.
C12_Witness ==
  /\ pc = "done"
  /\ WorkList = <<>>
  /\ \E i \in DOMAIN insts : i \notin DOMAIN input /\ isCheckedCast(insts, i)
  /\ \E i \in DOMAIN input : isCheckedCast(input, i) /\ i \notin DOMAIN insts

\* The run before the current one.
Previous == finished[Len(finished)]

LossyCalls ==
  {e \in FoldCalls :
     /\ e.inst.ID = "FPTrunc"
     /\ e.out.kernel # <<>>
     /\ e.out.kernel[1].lhs.category = "Normal"
     /\ ~e.out.kernel[1].lhs.denormal
     /\ e.inst.srcW > e.inst.dstW}

SrcExponent(e) == e.out.kernel[1].lhs.exponent

DestSem(e) == getFPSemantics(e.inst.dstW)

\* T: the source significand truncated to the significand width of the
\* destination (its most significant bits).
TruncatedSignificand(e) ==
  {b - (getFPSemantics(e.inst.srcW).significandBitWidth - DestSem(e).significandBitWidth) :
     b \in {c \in e.out.kernel[1].lhs.significand :
              c >= getFPSemantics(e.inst.srcW).significandBitWidth
                     - DestSem(e).significandBitWidth}}

\* Whether 1.T x 2^x is a subnormal of the destination: it is below
\* 2^minExponent and a multiple of 2^(minExponent - p). Bit b of T weighs
\* 2^(x - p + b) and the integer part weighs 2^x.
ExactSubnormal(x, T, destSem) ==
  /\ x < destSem.minExponent
  /\ \A b \in T \cup {destSem.significandBitWidth} :
       x - destSem.significandBitWidth + b
         >= destSem.minExponent - destSem.significandBitWidth

\* The calls that get to the mask computation.
MaskCalls ==
  {e \in LossyCalls : /\ SrcExponent(e) < DestSem(e).minExponent
                      /\ ~belowSubnormalRange(SrcExponent(e), DestSem(e))}

\* C26: isLossyUnderflow returns false for an exponent of at least the
\* destination's minimum m, true for an exponent below m - p, and in between
\* returns true exactly when 1.T x 2^e is not a subnormal of the destination.
C26_LossyExactlyWhenNotRepresentable ==
  \A e \in LossyCalls :
    LET x == SrcExponent(e)
        m == DestSem(e).minExponent
        p == DestSem(e).significandBitWidth
        r == e.out.kernel[1].ret
    IN  /\ x >= m => ~r
        /\ x < m - p => r
        /\ (m - p <= x /\ x < m) =>
             (r <=> ~ExactSubnormal(x, TruncatedSignificand(e), DestSem(e)))

FPTruncCalls ==
  {e \in FoldCalls : /\ e.inst.ID = "FPTrunc"
                     /\ e.F[e.inst.ops[1]].kind = "float_literal"}

\* The statuses and results on which the claim has no replacement.
AbortingConversion(conv) ==
  \/ "opInvalidOp" \in conv.opStatus
  \/ "opDivByZero" \in conv.opStatus
  \/ "opUnderflow" \in conv.opStatus
  \/ conv.truncVal.denormal

Representable(ID, v, s, d) ==
  IF SourceSigned(ID) \/ v >= 0
  THEN IF DestinationSigned(ID) THEN MinSigned(d) <= v /\ v <= MaxSigned(d)
       ELSE 0 <= v /\ v < Pow2(d)
  ELSE ~DestinationSigned(ID) /\ d = s

\* The number the w-bit pattern of signed reading v denotes.
Denotes(signed, v, w) == IF signed \/ v >= 0 THEN v ELSE v + Pow2(w)

\* The fold of e is the tuple (result, 0) and result denotes the number of
\* the source.
SameNumber(e) ==
  /\ e.out.C.k = "tuple"
  /\ e.out.C.ov = APOf(1, 0)
  /\ e.out.C.val.w = e.inst.dstW
  /\ Denotes(DestinationSigned(e.inst.ID), e.out.C.val.v, e.inst.dstW)
       = Denotes(SourceSigned(e.inst.ID), e.args[1].val.v, e.inst.srcW)

\* C22: a checked truncation of an s-bit literal to d <= s bits is replaced
\* by (result, 0) exactly when the number the literal denotes under the
\* source signedness is representable in d bits under the destination
\* signedness, and result then denotes that number; otherwise there is no
\* replacement.
C22_TruncationExact ==
  \A e \in TruncCalls :
    /\ e.inst.dstW <= e.inst.srcW
    /\ Replaced(e) <=>
         Representable(e.inst.ID, e.args[1].val.v, e.inst.srcW, e.inst.dstW)
    /\ Replaced(e) => SameNumber(e)

\* C22, amended: the same for d < s. For d = s (where the fold takes place
\* at all) it holds of SToSCheckedTrunc, UToUCheckedTrunc and
\* UToSCheckedTrunc, and SToUCheckedTrunc is replaced for every literal, by
\* (the same bits, 0).
C22_NarrowingExact ==
  \A e \in TruncCalls :
    /\ e.inst.dstW <= e.inst.srcW
    /\ (e.inst.dstW < e.inst.srcW \/ e.inst.ID # "SToUCheckedTrunc") =>
         /\ Replaced(e) <=>
              Representable(e.inst.ID, e.args[1].val.v, e.inst.srcW, e.inst.dstW)
         /\ Replaced(e) => SameNumber(e)
    /\ (e.inst.dstW = e.inst.srcW /\ e.inst.ID = "SToUCheckedTrunc") =>
         /\ ~cfg.assertions
         /\ e.out.C = constructResultWithOverflowTuple(e.args[1].val, FALSE)

C22_Witness ==
  /\ pc = "done"
  /\ \E e \in TruncCalls :
       /\ e.inst.ID = "SToUCheckedTrunc"
       /\ e.inst.srcW = MaxWidth + 1
       /\ e.inst.dstW = MaxWidth
       /\ e.args[1].val.v = MaxSigned(MaxWidth + 1)
       /\ SameNumber(e)
       /\ e.user \notin DOMAIN insts
  /\ \E i \in DOMAIN insts : insts[i].kind = "use"

\* ------------------------------------------ the comparison patterns

\* The values the non-literal value x of function F can take at run time, as
\* w-bit numbers: any value for an argument; a non-negative value for
\* AssumeNonNegative; the shifted values for LShr(y, k); for element 0 of a
\* checked builtin the results of the operation, those that overflow left
\* out when the report operand is the literal 1 (the operation traps); both
\* bits for element 1.
RuntimeValues(F, x, w) ==
  IF F[x].kind = "builtin" /\ F[x].ID = "AssumeNonNegative"
  THEN {a \in APInts(w) : ~isNegative(a)}
  ELSE IF F[x].kind = "builtin" /\ F[x].ID = "LShr" /\ isIntegerLiteral(F, F[x].ops[2])
  THEN {lshr(y, F[F[x].ops[2]].val) : y \in APInts(w)}
  ELSE IF F[x].kind = "tuple_extract" /\ F[x].field = 1
  THEN APInts(1)
  ELSE IF F[x].kind = "tuple_extract" /\ F[F[x].ops[1]].ID \in OverflowBuiltins
  THEN LET B == F[F[x].ops[1]]
           traps == isIntegerLiteral(F, B.ops[3]) /\ ZExtValue(F[B.ops[3]].val) = 1
       IN  {r.res : r \in {t \in {constantFoldBinaryWithOverflowAPInt(
                                     a, b, getLLVMIntrinsicIDForBuiltinWithOverflow(B.ID)) :
                                     a \in APInts(w), b \in APInts(w)} :
                                 ~(traps /\ t.ov)}}
  ELSE APInts(w)

\* What the comparison of e computes when its non-literal operand is xv.
Computes(e, xv) ==
  IF LitFirst(e) THEN constantFoldComparison(LitOf(e), xv, e.inst.ID)
  ELSE constantFoldComparison(xv, LitOf(e), e.inst.ID)

\* The fold of e is one of the two patterns on the result of a reported
\* unsigned checked operation.
ByCheckedUnsignedPattern(e) ==
  /\ e.inst.ID \in {"ICMP_SLT", "ICMP_SGE"}
  /\ ~LitFirst(e)
  /\ LitOf(e).v = 0
  /\ IsCheckedUnsigned(e.F, XOf(e))

\* C23: every comparison with a non-literal operand that a pattern replaces
\* by a literal computes that literal for every value the operand can take at
\* run time.
C23_PatternsPreserveSemantics ==
  \A e \in MixedCompares :
    Replaced(e) =>
      \A xv \in RuntimeValues(e.F, XOf(e), LitOf(e).w) : Computes(e, xv) = e.out.C.val

\* C23, amended: the same, except for the two patterns on element 0 of a
\* reported UAddOver, USubOver or UMulOver: x < 0 replaced by 0 and x >= 0
\* replaced by 1 are what the comparison computes exactly for the results
\* whose sign bit is clear.
C23_PreservedButForCheckedUnsigned ==
  \A e \in MixedCompares :
    Replaced(e) =>
      \A xv \in RuntimeValues(e.F, XOf(e), LitOf(e).w) :
        Computes(e, xv) = e.out.C.val
          <=> ~(ByCheckedUnsignedPattern(e) /\ isNegative(xv))

C23_Witness ==
  /\ pc = "done"
  /\ \E e \in MixedCompares :
       /\ e.inst.ID = "ICMP_UGE" /\ LitFirst(e)
       /\ IsPositiveLShr(e.F, XOf(e))
       /\ FoldsTo(e, 1)
       /\ AP(MaxWidth, MaxSigned(MaxWidth)) \in RuntimeValues(e.F, XOf(e), MaxWidth)
       /\ e.user \notin DOMAIN insts
  /\ \E i \in DOMAIN insts : insts[i].kind = "use" /\ isIntegerLiteral(insts, insts[i].ops[1])

\* The predicate that compares (b, a) as ID compares (a, b).
MirrorOf(ID) ==
  CASE ID = "ICMP_SLT" -> "ICMP_SGT" [] ID = "ICMP_SGT" -> "ICMP_SLT"
    [] ID = "ICMP_SLE" -> "ICMP_SGE" [] ID = "ICMP_SGE" -> "ICMP_SLE"
    [] ID = "ICMP_ULT" -> "ICMP_UGT" [] ID = "ICMP_UGT" -> "ICMP_ULT"
    [] ID = "ICMP_ULE" -> "ICMP_UGE" [] ID = "ICMP_UGE" -> "ICMP_ULE"
    [] OTHER -> ID

\* The function of e with the comparison written the other way round.
Mirrored(e) ==
  [e.F EXCEPT ![e.user].ID = MirrorOf(@), ![e.user].ops = <<@[2], @[1]>>]

\* C24: whenever a pattern replaces a comparison, the mirrored comparison is
\* replaced by the same value.
C24_MirrorInsensitive ==
  \A e \in MixedCompares :
    Replaced(e) =>
      constantFoldCompare(Mirrored(e), e.user, e.out.rie).C = e.out.C

\* C24, amended: the same for every pattern but the two on element 0 of a
\* reported unsigned checked operation, which exist in the spelling x < 0 and
\* x >= 0 only: the mirrored 0 > x and 0 <= x are not replaced.
C24_MirrorInsensitiveButForCheckedUnsigned ==
  \A e \in MixedCompares :
    Replaced(e) =>
      constantFoldCompare(Mirrored(e), e.user, e.out.rie).C
        = IF ByCheckedUnsignedPattern(e) THEN NullC ELSE e.out.C

C24_Witness ==
  /\ pc = "done"
  /\ \E e \in MixedCompares :
       /\ e.inst.ID = "ICMP_SGT" /\ LitFirst(e) /\ LitOf(e).v = 0
       /\ IsAssumeNonNegative(e.F, XOf(e))
       /\ FoldsTo(e, 0)
       /\ constantFoldCompare(Mirrored(e), e.user, e.out.rie).C = e.out.C
       /\ Mirrored(e)[e.user].ID = "ICMP_SLT"
       /\ e.user \notin DOMAIN insts

\* ------------------------------------------------ worklist and deletion

\* C25: every instruction on the worklist is in the function, so the
\* instruction popped next has a parent block.
C25_WorkListInFunction ==
  \A k \in 1..Len(WorkList) :
    WorkList[k] \in DOMAIN insts /\ WorkList[k] \in SeqToSet(block)

\* The first iteration popped the literal 2, folded its user 3, and the dead
\* user cleanup deleted 3 and, with it, the literal 1 that was seeded and
\* waiting on the worklist.
C25_Witness ==
  /\ pc = "process"
  /\ Len(folds) = 1
  /\ folds[1].F = input
  /\ folds[1].user = 3
  /\ folds[1].inst.ops = <<1, 2>>
  /\ isSeeded(input, 1, cfg.AssertConfiguration)
  /\ isSeeded(input, 2, cfg.AssertConfiguration)
  /\ Replaced(folds[1])
  /\ {1, 2, 3} \cap DOMAIN insts = {}
  /\ WorkList # <<>>

\* ------------------------------------------------------ folds of a user

\* The positions in folds of the calls that produced a replacement.
SuccessfulFolds == {k \in 1..Len(folds) : Replaced(folds[k])}

\* The integer literals the run added to the function that are still in it
\* and have no use.
UnusedNewLiterals ==
  {n \in DOMAIN insts : /\ n > Len(input)
                        /\ insts[n].kind = "integer_literal"
                        /\ use_empty(insts, n)}

NothingChanged == insts = input /\ nextId = Len(input) + 1

\* A cond_fail of the input function whose operand is an integer literal.
CondFailOfLiteral(i) ==
  /\ input[i].kind = "cond_fail"
  /\ isIntegerLiteral(input, input[i].ops[1])

\* C28: a run that creates, erases and rewrites no instruction returns the
\* invalidation Nothing, also when a popped literal has cond_fail users that
\* are not dead.
C28_UnchangedReportsNothing ==
  (pc = "done" /\ NothingChanged) => result = {}

\* C28, amended: a run that changes nothing returns Nothing unless a popped
\* literal has a cond_fail among its users; then it returns Instructions,
\* although the cond_fail stays.
C28_UnchangedReportsCondFail ==
  (pc = "done" /\ NothingChanged) =>
    result = IF \E i \in DOMAIN input : CondFailOfLiteral(i)
             THEN {"Instructions"} ELSE {}

C28_Witness ==
  /\ pc = "done"
  /\ NothingChanged
  /\ \E i \in DOMAIN input : CondFailOfLiteral(i) /\ input[input[i].ops[1]].val.v # 0
  /\ NumInstFolded = 0
  /\ result = {"Instructions"}

\* ------------------------------------------ diagnostics enabled or not

\* The other run of the same function, and the users a run folded.
OtherRun == finished[1]

FoldedUsersOf(log) == {log[k].user : k \in {j \in 1..Len(log) : Replaced(log[j])}}

\* Both runs are over and left the same function, having folded the same
\* users.
SameOutcome ==
  /\ insts = OtherRun.output
  /\ block = OtherRun.block
  /\ FoldedUsersOf(folds) = FoldedUsersOf(OtherRun.folds)

\* The log of the run that had diagnostics enabled.
DiagnosingLog == IF cfg.EnableDiagnostics THEN folds ELSE OtherRun.folds

RefusedOverflow(e) ==
  /\ e.inst.ID \in OverflowBuiltins
  /\ BothLiteral(e)
  /\ e.args[3].lit /\ ZExtValue(e.args[3].val) = 1
  /\ ~FitsIn(e.inst.ID, e.args[1].val.w,
             MathResult(e.inst.ID, e.args[1].val, e.args[2].val))
  /\ ~Replaced(e)

====
